---- MODULE Spec2Model ----
(***************************************************************************)
(* Model of fragment_feature_detection/decomposition.py: the masked        *)
(* cross-validation wrapper around NMF (NMFMaskWrapper), the fit-and-score *)
(* routine, the randomized and Optuna search drivers and the scoring of    *)
(* OptimizationParameters.                                                 *)
(*                                                                         *)
(* Numeric metric values are carried in hundredths (0.4 is 40) so that the *)
(* arithmetic of the source stays exact over the integers.                 *)
(***************************************************************************)
EXTENDS Integers, Sequences, FiniteSets, TLC

\* ------------------------------------------------------------------------
\* Bounds of the model
\* ------------------------------------------------------------------------
MaxSplits == 2
MaxMats == 2
MaxIter == 2

\* ------------------------------------------------------------------------
\* Input matrices.  A matrix is modelled by the class of behaviour it
\* triggers in NMFMaskWrapper.fit; every matrix has MatrixRows rows (a 1-D
\* array MatrixRows entries):
\*   ok         a finite 2-D matrix of positive entries: the NMF fit of any
\*              non-empty selection of its rows succeeds
\*   degenerate a 2-D matrix without a column, or without a finite value:
\*              fit_nmf_matrix_custom_init takes its all-zero fallback
\*   nanrow     a 2-D matrix of positive entries but for its first row, which
\*              holds a NaN
\*   bad1d      a 1-D array: the NMF fit raises and the fallback itself
\*              raises on m.shape[1], so the exception leaves fit
\* ------------------------------------------------------------------------
MatrixKinds == {"ok", "degenerate", "nanrow", "bad1d"}

MatrixRows == 2

SplitterTypes == {"Mask", "Masking", "Sample"}

ParamKeys == {"n_splits", "splitter_type", "nonstr"}

RECURSIVE SeqsUpTo(_, _)
SeqsUpTo(S, n) ==
    IF n = 0 THEN {<< >>}
    ELSE LET shorter == SeqsUpTo(S, n - 1)
         IN  shorter \cup {Append(q, x) : q \in {r \in shorter : Len(r) = n - 1}, x \in S}

\* The lists handed to fit: up to MaxMats matrices, at most one of which is
\* not of kind ok.
Inputs ==
    {X \in SeqsUpTo(MatrixKinds, MaxMats) :
        Cardinality({i \in 1..Len(X) : X[i] # "ok"}) <= 1}

\* Candidate parameter dictionaries handed to set_params: keys is the set of
\* keys present; "nonstr" stands for a key that is not a string.
\* An absent key carries a fixed filler value; a dictionary with a
\* non-string key is represented once, since the call raises before any key
\* is looked at.
Parameters ==
    {p \in [keys : SUBSET ParamKeys, n_splits : 0..MaxSplits,
            splitter_type : SplitterTypes] :
        /\ "n_splits" \notin p.keys => p.n_splits = 0
        /\ "splitter_type" \notin p.keys => p.splitter_type = "Mask"
        /\ "nonstr" \in p.keys => p.keys = {"nonstr"}}

\* The dictionaries a search hands to _fit_and_score: a candidate may carry
\* n_splits like any other wrapper field.
CandidateParameters == {p \in Parameters : "splitter_type" \notin p.keys}

\* est, lastFit, fsOut: a wrapper driven directly, the outcome of its latest
\* fit and the value returned by the latest _fit_and_score call.
\* rcv, rX, rCands, rOut, rRun: a RandomizedSearchReconstructionCV object, the
\* matrices and candidates of its fit, what each parallel job returned, and
\* where the fit call stands.
\* ocv, oX, oStudy, oWorkers, oRun: an OptunaSearchReconstructionCV object, the
\* matrices of its fit, the trials of the study in trial-number order, the
\* number of trials each worker still has to run with the trial it is
\* running, and where the fit stands.
\* sError, sPrev, sCur: the error norm of an OptimizationParameters object
\* and its two latest score() calls.
\* splitter, spX, gens: a splitter object, the matrices handed to its split
\* and the generators that calls of split have returned.
\* hTable, hNames, hError, hOut: the score table of a fitted search, the
\* objective names and error norm of a harmonic-mean selection and its result.
\* pw, pLast: a wrapper with its NMF keyword arguments and the latest of its
\* parameter calls.
\* lg, tRun: the root logger and the tuning call that reconfigures it.
\* dw, dMem, dOut: a wrapper fitted on arrays, the arrays in memory with the
\* caller's list X of references to them, and the latest call on the wrapper.
\* nIn, nOut: the arguments and the outcome of the latest call of
\* fit_nmf_matrix_custom_init.
\* jIn, jOut: the fold records a trial's fit-and-score returned with the
\* settings of the search, and what the objective made of them.
\* eM, eRec, eMask, eOut: a matrix, a reconstruction of it, a mask and the
\* steps taken by mask_train_matrix and reconstruction_error on them.
VARIABLES est, lastFit, fsOut, rcv, rX, rCands, rOut, rRun,
          ocv, oX, oStudy, oWorkers, oRun, sError, sPrev, sCur,
          splitter, spX, gens, eM, eRec, eMask, eOut,
          hTable, hNames, hError, hOut,
          pw, pLast,
          lg, tRun,
          dw, dMem, dOut,
          nIn, nOut,
          jIn, jOut

wrapperVars == <<est, lastFit, fsOut>>

randomVars == <<rcv, rX, rCands, rOut, rRun>>

optunaVars == <<ocv, oX, oStudy, oWorkers, oRun>>

scoreVars == <<sError, sPrev, sCur>>

splitVars == <<splitter, spX, gens>>

errorVars == <<eM, eRec, eMask, eOut>>

harmonicVars == <<hTable, hNames, hError, hOut>>

paramsVars == <<pw, pLast>>

tuneVars == <<lg, tRun>>

dataVars == <<dw, dMem, dOut>>

nmfVars == <<nIn, nOut>>

objectiveVars == <<jIn, jOut>>

\* What the actions of one component leave unchanged: the other components.
notWrapper ==
    <<randomVars, optunaVars, scoreVars, splitVars, errorVars,
      harmonicVars, paramsVars, tuneVars, dataVars, nmfVars,
      objectiveVars>>

notRandom ==
    <<wrapperVars, optunaVars, scoreVars, splitVars, errorVars,
      harmonicVars, paramsVars, tuneVars, dataVars, nmfVars,
      objectiveVars>>

notOptuna ==
    <<wrapperVars, randomVars, scoreVars, splitVars, errorVars,
      harmonicVars, paramsVars, tuneVars, dataVars, nmfVars,
      objectiveVars>>

notScore ==
    <<wrapperVars, randomVars, optunaVars, splitVars, errorVars,
      harmonicVars, paramsVars, tuneVars, dataVars, nmfVars,
      objectiveVars>>

notSplit ==
    <<wrapperVars, randomVars, optunaVars, scoreVars, errorVars,
      harmonicVars, paramsVars, tuneVars, dataVars, nmfVars,
      objectiveVars>>

notError ==
    <<wrapperVars, randomVars, optunaVars, scoreVars, splitVars,
      harmonicVars, paramsVars, tuneVars, dataVars, nmfVars,
      objectiveVars>>

notHarmonic ==
    <<wrapperVars, randomVars, optunaVars, scoreVars, splitVars,
      errorVars, paramsVars, tuneVars, dataVars, nmfVars,
      objectiveVars>>

notParams ==
    <<randomVars, optunaVars, scoreVars, splitVars, errorVars,
      harmonicVars, wrapperVars, tuneVars, dataVars, nmfVars,
      objectiveVars>>

notTune ==
    <<randomVars, optunaVars, scoreVars, splitVars, errorVars,
      harmonicVars, paramsVars, wrapperVars, dataVars, nmfVars,
      objectiveVars>>

notData ==
    <<randomVars, optunaVars, scoreVars, splitVars, errorVars,
      harmonicVars, paramsVars, tuneVars, wrapperVars, nmfVars,
      objectiveVars>>

notNmf ==
    <<randomVars, optunaVars, scoreVars, splitVars, errorVars,
      harmonicVars, paramsVars, tuneVars, dataVars, wrapperVars,
      objectiveVars>>

notObjective ==
    <<randomVars, optunaVars, scoreVars, splitVars, errorVars,
      harmonicVars, paramsVars, tuneVars, dataVars, nmfVars,
      wrapperVars>>

vars == <<est, lastFit, fsOut, rcv, rX, rCands, rOut, rRun,
          ocv, oX, oStudy, oWorkers, oRun, sError, sPrev, sCur,
          splitter, spX, gens, eM, eRec, eMask, eOut,
          hTable, hNames, hError, hOut,
          pw, pLast,
          lg, tRun,
          dw, dMem, dOut,
          nIn, nOut,
          jIn, jOut>>

\* ------------------------------------------------------------------------
\* Random numbers
\* ------------------------------------------------------------------------
\* np.random.default_rng(seed) is numpy's PCG64 generator seeded through
\* SeedSequence.  Its stream of doubles is tabulated for the seeds the model
\* uses: entry k is the k-th draw of random() in units of 1 / RngScale,
\* rounded down, which keeps every comparison with a fraction given in
\* hundredths exact.
RngScale == 10000

Stream(seed) ==
    CASE seed = 42 -> <<
          7739, 4388, 8585, 6973, 941, 9756, 7611, 7860, 1281, 4503, 3707, 9267,
          6438, 8227, 4434, 2272, 5545, 638, 8276, 6316, 7580, 3545, 9706, 8931,
          7783, 1946, 4667, 438, 1542, 6830, 7447, 9675, 3258, 3704, 4695, 1894,
          1299, 4757, 2269, 6698, 4371, 8326, 7002, 3123, 8322, 8047, 3874, 2883,
          6824, 1397, 1999, 73, 7869, 6648, 7051, 7807, 4589, 5687, 1397, 1145,
          6684, 4710, 5652, 7649, 6347, 5535, 5592, 3039, 308, 4367, 2145, 4085,
          8534, 2339, 583, 2813, 2935, 6619, 5570, 7838, 6643, 4063, 8140, 1669,
          227, 900, 7223, 4618, 1612, 5010, 1523, 6963, 4461, 3810, 3015, 6302,
          3618, 876, 1180, 9618, 9085, 6997, 2658, 9691, 7787, 7168, 4493, 2722,
          963, 9026, 4557, 2023, 3059, 5792, 1767, 8566, 7585, 7194, 4320, 6273,
          5840, 6498, 844, 4158, 416, 4939, 3298, 1445>>
      [] seed = 1 -> <<
          5118, 9504, 1441, 9486, 3118, 4233, 8277, 4091, 5495, 275, 7535, 5381,
          3297, 7884, 3031, 4534, 1340, 4031, 2034, 2623, 7503, 2804, 4851, 9807,
          9616, 7247, 5412, 2768, 1606, 9699, 5160, 1158, 6234, 7766, 6130, 9172,
          395, 5285, 4593, 623, 6413, 8526, 5929, 2600, 8398, 5094, 5108, 7530,
          1479, 8196, 6832, 7870, 1916, 8023, 1913, 815, 8552, 8612, 8765, 4719,
          2740, 70, 6457, 7199, 8355, 2818, 2152, 6393, 8050, 9636, 1505, 4822,
          8947, 4227, 5895, 244, 6734, 9190, 8268, 8855, 6603, 2455, 7685, 2116,
          8312, 627, 8254, 1645, 3751, 3167, 6913, 1785, 3962, 58, 2624, 4211,
          1059, 6331, 3804, 7252, 6538, 4312, 8673, 6321, 8102, 3417, 5436, 1962,
          9961, 2432, 2568, 731, 2578, 7631, 6978, 1286, 3762, 4209, 6649, 4559,
          5865, 8396, 7264, 3650, 4483, 3676, 1097, 2032>>

\* np.random.default_rng(seed=...): the state a fresh generator starts in,
\* the seed and the number of draws taken so far.
default_rng(seed) == [seed |-> seed, pos |-> 0]

\* rng.random(n): n draws in order, and the state they leave.
Random(rng, n) ==
    [vals |-> [k \in 1..n |-> Stream(rng.seed)[rng.pos + k]],
     rng |-> [rng EXCEPT !.pos = @ + n]]

\* draw / RngScale < num / den
Below(x, num, den) == x * den < num * RngScale

\* ------------------------------------------------------------------------
\* NMFMaskWrapper
\* ------------------------------------------------------------------------
ListNames ==
    {"models", "reconstruction_errors", "test_reconstruction_errors",
     "train_reconstruction_errors",
     "neglog_ratio_train_test_reconstruction_error",
     "nonzero_component_fraction", "fraction_window_component",
     "weight_orthogonality", "sample_orthogonality", "test_samples",
     "train_samples", "mean_weight_sparsity", "mean_sample_sparsity"}

\* The lists the fit loop appends to (every list but _reconstruction_errors).
TrackedLists == ListNames \ {"reconstruction_errors"}

\* __init__: no per-fit list exists before the first fit.
NMFMaskWrapper(splitter_type, n_splits) ==
    [splitter_type |-> splitter_type,
     n_splits |-> n_splits,
     hasLists |-> FALSE,
     lists |-> [l \in ListNames |-> << >>]]

\* sklearn clone: a new wrapper built from get_params().
clone(e) == NMFMaskWrapper(e.splitter_type, e.n_splits)

\* set_params: neither n_splits nor splitter_type is an NMF keyword, so both
\* are set with setattr.  A non-string key makes the call itself raise.
SetParamsRaises(p) == "nonstr" \in p.keys

set_params(e, p) ==
    [e EXCEPT !.n_splits = IF "n_splits" \in p.keys THEN p.n_splits ELSE @,
              !.splitter_type =
                  IF "splitter_type" \in p.keys THEN p.splitter_type ELSE @]

\* The defaults of __init__ the splitter is built with: mask_fraction in
\* hundredths and the random_state of the NMF keyword arguments.
DefaultMaskFraction == 20

DefaultRandomState == 42

\* MzBinSampleSplitter.split for one matrix: rng.random(m.shape[0]) <
\* mask_fraction, the test mask, and the state the generator is left in.
\* One generator serves every matrix of every split.
SampleMask(rng) ==
    LET r == Random(rng, MatrixRows)
    IN  [mask |-> [i \in 1..MatrixRows |->
                      Below(r.vals[i], DefaultMaskFraction, 100)],
         rng |-> r.rng]

\* fit_model on the masked copy of a matrix of a kind.  The bin splitter
\* zeroes entries and keeps the shape (it never picks a NaN entry: the
\* signal mask draws among m > 0 and m == 0); the sample splitter keeps the
\* rows outside the test mask, possibly none.
FitOutcome(type, kind, mask) ==
    CASE kind = "bad1d" -> "raise"
      [] kind = "degenerate" -> "fallback"
      [] kind = "nanrow" ->
             IF type = "Sample" /\ mask[1]
                /\ \E i \in 1..MatrixRows : ~mask[i]
             THEN "fit" ELSE "fallback"
      [] OTHER ->
             IF type = "Sample" /\ \A i \in 1..MatrixRows : mask[i]
             THEN "fallback" ELSE "fit"

\* splitter.reconstruction_error raises: the sample splitter hands the test
\* rows to model.transform unless the components or the rows sum to zero,
\* and transform rejects a NaN.
ErrorRaises(type, kind, mask, res) ==
    /\ type = "Sample"
    /\ res = "fit"
    /\ kind = "nanrow"
    /\ mask[1]

\* What one loop iteration appends: the (split, matrix) pair it was computed
\* for and the outcome of the factorization.
Entry(s, j, res) == [split |-> s, mat |-> j, res |-> res]

\* AppendAll with the sample counts left out on the fallback branch.
AppendAllButSamples(e, entry) ==
    [e EXCEPT !.lists =
        [l \in ListNames |->
            IF l \in TrackedLists \ {"models"}
               /\ ~(entry.res = "fallback" /\ l \in {"test_samples", "train_samples"})
            THEN Append(@[l], entry)
            ELSE @[l]]]

\* The appends that follow the two reconstruction errors: one entry on each
\* tracked list but _models.
AppendAll(e, entry) ==
    [e EXCEPT !.lists =
        [l \in ListNames |->
            IF l \in TrackedLists \ {"models"} THEN Append(@[l], entry)
            ELSE @[l]]]

\* The first lines of fit: every list is re-created empty.
ResetLists(e) ==
    [e EXCEPT !.hasLists = TRUE, !.lists = [l \in ListNames |-> << >>]]

ValidSplitter(st) == st \in {"Mask", "Sample"}

NoError == "None"

\* The loop of fit, from flat iteration k (split k \div len(X), matrix
\* k % len(X)) with the sample splitter's generator in state rng: each
\* matrix is copied, masked and fitted, the model is appended, the two
\* reconstruction errors are computed and the other results are appended;
\* an exception leaves the lists as they are.
RECURSIVE FitLoop(_, _, _, _)
FitLoop(e, X, k, rng) ==
    IF k >= e.n_splits * Len(X)
    THEN [est |-> e, raised |-> FALSE, error |-> NoError]
    ELSE LET s == k \div Len(X)
             j == (k % Len(X)) + 1
             sm == SampleMask(rng)
             res == FitOutcome(e.splitter_type, X[j], sm.mask)
             entry == Entry(s, j, res)
             e1 == [e EXCEPT !.lists["models"] = Append(@, entry)]
         IN  IF res = "raise"
             THEN [est |-> e, raised |-> TRUE,
                   error |-> "tuple index out of range"]
             ELSE IF ErrorRaises(e.splitter_type, X[j], sm.mask, res)
             THEN [est |-> e1, raised |-> TRUE,
                   error |-> "Input X contains NaN."]
             ELSE FitLoop(AppendAll(e1, entry), X, k + 1,
                          IF e.splitter_type = "Sample" THEN sm.rng ELSE rng)

\* NMFMaskWrapper.fit: raised tells whether an exception left the call and
\* error is its str(e), NoError when the fit returns.
fit(e, X) ==
    LET e0 == ResetLists(e)
    IN  IF ~ValidSplitter(e0.splitter_type)
        THEN [est |-> e0, raised |-> TRUE, error |-> "Invalid splitter type"]
        ELSE FitLoop(e0, X, 0, default_rng(DefaultRandomState))

\* ------------------------------------------------------------------------
\* _fit_and_score
\* ------------------------------------------------------------------------
\* _FIT_AND_SCORE with the leading underscore stripped, mapped to the list
\* each name is read from, plus the "score" entry.
ExtraScores ==
    {"test_reconstruction_errors", "weight_orthogonality",
     "sample_orthogonality", "nonzero_component_fraction",
     "neglog_ratio_train_test_reconstruction_error", "mean_weight_sparsity",
     "mean_sample_sparsity", "fraction_window_component"}

ScoreNames == ExtraScores \cup {"score"}

Absent == [split |-> -1, mat |-> -1, res |-> "absent"]

NoScores == [k \in ScoreNames |-> Absent]

\* The record of index i (from 1) built on the success path.
ScoredRecord(e, i) ==
    [test_scores |->
        [k \in ScoreNames |->
            IF k = "score" THEN e.lists["test_reconstruction_errors"][i]
            ELSE e.lists[k][i]],
     train_scores |->
        [k \in ScoreNames |->
            IF k = "score" THEN e.lists["train_reconstruction_errors"][i]
            ELSE e.lists[k][i]],
     n_test_samples |-> e.lists["test_samples"][i],
     estimator |-> e.lists["models"][i],
     scored |-> TRUE,
     fit_error |-> NoError]

\* The record of index i (from 1) built by the except branch.
FailedRecord(e, i, err) ==
    [test_scores |-> NoScores,
     train_scores |-> NoScores,
     n_test_samples |-> Absent,
     estimator |-> e.lists["models"][i],
     scored |-> FALSE,
     fit_error |-> err]

\* Every list the success path indexes has at least n entries.
CanIndex(e, n) ==
    \A l \in (ExtraScores \cup {"train_reconstruction_errors", "test_samples",
                               "models"}) : Len(e.lists[l]) >= n

\* _fit_and_score(estimator, X, parameters=p): status "raised" stands for an
\* exception leaving the routine (AttributeError or IndexError on a list),
\* failed tells whether the except branch ran and error is the str(e) it
\* caught.  The except branch reads estimator._models[i] for i in
\* range(n_splits), so it touches no list when n_splits is 0.
fit_and_score(e, X, p) ==
    IF SetParamsRaises(p)
    THEN IF e.n_splits = 0
            \/ (e.hasLists /\ Len(e.lists["models"]) >= e.n_splits)
         THEN [status |-> "returned", failed |-> TRUE, est |-> e,
               error |-> "keywords must be strings",
               recs |-> [i \in 1..e.n_splits |->
                            FailedRecord(e, i, "keywords must be strings")]]
         ELSE [status |-> "raised", failed |-> TRUE, est |-> e,
               error |-> "keywords must be strings", recs |-> << >>]
    ELSE LET r == fit(set_params(e, p), X)
             f == r.est
         IN  IF r.raised
             THEN IF Len(f.lists["models"]) >= f.n_splits
                  THEN [status |-> "returned", failed |-> TRUE, est |-> f,
                        error |-> r.error,
                        recs |-> [i \in 1..f.n_splits |->
                                     FailedRecord(f, i, r.error)]]
                  ELSE [status |-> "raised", failed |-> TRUE, est |-> f,
                        error |-> r.error, recs |-> << >>]
             ELSE IF CanIndex(f, f.n_splits)
                  THEN [status |-> "returned", failed |-> FALSE, est |-> f,
                        error |-> NoError,
                        recs |-> [i \in 1..f.n_splits |-> ScoredRecord(f, i)]]
                  ELSE [status |-> "raised", failed |-> FALSE, est |-> f,
                        error |-> NoError, recs |-> << >>]

\* ------------------------------------------------------------------------
\* The wrapper driven directly: parameter changes, fits, clones and
\* fit-and-score calls in any order.
\* ------------------------------------------------------------------------
\* prev: whether the lists held entries of an earlier fit when the latest
\* fit began; error: str(e) of the exception that ended it.
NoFit == [status |-> "none", n_splits |-> 0, nX |-> 0, prev |-> FALSE,
          error |-> NoError]

NoCall == [status |-> "none", failed |-> FALSE, recs |-> << >>,
           n_splits |-> 0, nX |-> 0]

WrapperIdle ==
    /\ est = NMFMaskWrapper("Masking", 0)
    /\ lastFit = NoFit
    /\ fsOut = NoCall

\* No search is under way.
NoSearch == [estimator |-> NMFMaskWrapper("Masking", 0), n_iter |-> 0,
             param_distributions |-> [lists |-> TRUE, grid |-> {}],
             fitted |-> FALSE, cv_results |-> << >>, n_records |-> 0,
             params |-> << >>, best_index_ |-> 0, best_params_ |-> << >>,
             best_score_ |-> << >>, n_splits_ |-> 0]

NoRun == [pc |-> "idle", aggregated |-> FALSE, error |-> NoError]

RandomIdle ==
    /\ rcv = NoSearch
    /\ rX = << >>
    /\ rCands = << >>
    /\ rOut = << >>
    /\ rRun = NoRun

\* No Optuna search is under way.
NoOptunaSearch ==
    [estimator |-> NMFMaskWrapper("Masking", 0), n_iter |-> 0, n_jobs |-> 0,
     objective_params |-> << >>, fitted |-> FALSE, cv_results |-> << >>,
     n_records |-> 0, params |-> << >>, best_index_ |-> 0,
     best_params_ |-> << >>, best_score_ |-> << >>, best_trials_ |-> << >>,
     n_splits_ |-> 0]

\* out_of_order: some trial has finished before a trial of a lower number.
NoOptunaRun == [pc |-> "idle", aggregated |-> FALSE, error |-> NoError,
                n_trials |-> 0, storage |-> "none", out_of_order |-> FALSE]

OptunaIdle ==
    /\ ocv = NoOptunaSearch
    /\ oX = << >>
    /\ oStudy = << >>
    /\ oWorkers = << >>
    /\ oRun = NoOptunaRun

NoScore == [param |-> "none", value |-> 0, result |-> 0]

ScoreIdle ==
    /\ sError = "l1"
    /\ sPrev = NoScore
    /\ sCur = NoScore

NoArray == [shape |-> << >>, data |-> << >>]

\* No error has been computed.
NoFloat == [nan |-> FALSE, value |-> -1]

SplitIdle ==
    /\ splitter = [type |-> "none", n_splits |-> 0, mask_fraction |-> 0,
                   random_state |-> 0, mask_signal |-> FALSE,
                   balance_mask_signal |-> FALSE]
    /\ spX = << >>
    /\ gens = << >>

ErrorIdle ==
    /\ eM = NoArray
    /\ eRec = NoArray
    /\ eMask = NoArray
    /\ eOut = [pc |-> "idle", train |-> NoArray, error |-> NoFloat]

\* The selector has not been called.
NoPick == [status |-> "none", keys |-> << >>, normalized |-> << >>,
           scores |-> << >>]

HarmonicIdle ==
    /\ hTable = << >>
    /\ hNames = << >>
    /\ hError = "l1"
    /\ hOut = NoPick

\* No parameter call has been made; expected maps each NMF keyword given to
\* the constructor or to set_params to its latest value.
NoParamsCall == [op |-> "none", param |-> "", value |-> 0, before |-> << >>,
                 passed |-> << >>, expected |-> << >>]

ParamsIdle ==
    /\ pw = [fields |-> << >>, nmf_kwargs |-> << >>, attrs |-> << >>]
    /\ pLast = NoParamsCall

\* No tuning call has been made.
NoTune == [pc |-> "idle", entry |-> "none", original_logger_state |-> FALSE,
           original_logger_level |-> 0, old_handler |-> 0, new_open |-> FALSE,
           before |-> [handlers |-> << >>, disabled |-> FALSE, level |-> 0]]

TuneIdle ==
    /\ lg = [handlers |-> << >>, disabled |-> FALSE, level |-> 0]
    /\ tRun = NoTune

\* No call has been made on the wrapper that is fitted on arrays.
NoDataCall == [op |-> "none", raised |-> FALSE, value |-> NoFloat,
               before |-> << >>, fails |-> {}]

DataIdle ==
    /\ dw = [splitter_type |-> "none", n_splits |-> 0, mask_fraction |-> 0,
             random_state |-> 0, mask_signal |-> FALSE,
             balance_mask_signal |-> FALSE, hasLists |-> FALSE,
             lists |-> << >>, test_masks |-> << >>]
    /\ dMem = [heap |-> << >>, X |-> << >>]
    /\ dOut = NoDataCall

\* fit_nmf_matrix_custom_init has not been called.
NoNMFCall == [status |-> "none", error |-> NoError, W |-> NoArray,
              H |-> NoArray, reconstruction_err |-> "none", init |-> "none",
              logged |-> FALSE]

NMFIdle ==
    /\ nIn = [m |-> [shape |-> << >>, kind |-> "none"], n_components |-> 0,
              solver |-> "none", init |-> "none", custom |-> "none",
              numerical |-> FALSE]
    /\ nOut = NoNMFCall

\* The objective has not been called on the results.
NoObjectiveCall == [state |-> "none", error |-> NoError, out |-> << >>,
                    values |-> << >>]

ObjectiveIdle ==
    /\ jIn = [results |-> << >>, objective_params |-> << >>,
              prune_bad_parameter_spaces |-> FALSE, error |-> "l1"]
    /\ jOut = NoObjectiveCall

\* Every component but one is idle.
IdleExcept(c) ==
    /\ IF c = "wrapper" THEN TRUE ELSE WrapperIdle
    /\ IF c = "random" THEN TRUE ELSE RandomIdle
    /\ IF c = "optuna" THEN TRUE ELSE OptunaIdle
    /\ IF c = "score" THEN TRUE ELSE ScoreIdle
    /\ IF c = "split" THEN TRUE ELSE SplitIdle
    /\ IF c = "error" THEN TRUE ELSE ErrorIdle
    /\ IF c = "harmonic" THEN TRUE ELSE HarmonicIdle
    /\ IF c = "params" THEN TRUE ELSE ParamsIdle
    /\ IF c = "tune" THEN TRUE ELSE TuneIdle
    /\ IF c = "data" THEN TRUE ELSE DataIdle
    /\ IF c = "nmf" THEN TRUE ELSE NMFIdle
    /\ IF c = "objective" THEN TRUE ELSE ObjectiveIdle

InitWrapper ==
    /\ \E st \in SplitterTypes, n \in 0..MaxSplits : est = NMFMaskWrapper(st, n)
    /\ lastFit = NoFit
    /\ fsOut = NoCall
    /\ IdleExcept("wrapper")

WSetParams ==
    \E p \in Parameters :
        /\ ~SetParamsRaises(p)
        /\ est' = set_params(est, p)
        /\ fsOut' = NoCall
        /\ UNCHANGED <<lastFit, notWrapper>>

WClone ==
    /\ est' = clone(est)
    /\ lastFit' = NoFit
    /\ fsOut' = NoCall
    /\ UNCHANGED notWrapper

WFit ==
    \E X \in Inputs :
        \E r \in {fit(est, X)} :
            /\ est' = r.est
            /\ lastFit' = [status |-> IF r.raised THEN "raised" ELSE "returned",
                           n_splits |-> est.n_splits, nX |-> Len(X),
                           prev |-> Len(est.lists["models"]) > 0,
                           error |-> r.error]
            /\ fsOut' = NoCall
            /\ UNCHANGED notWrapper

WFitAndScore ==
    \E X \in Inputs, p \in CandidateParameters :
        \E r \in {fit_and_score(est, X, p)} :
            /\ est' = r.est
            /\ fsOut' = [status |-> r.status, failed |-> r.failed,
                         recs |-> r.recs, n_splits |-> r.est.n_splits,
                         nX |-> Len(X)]
            /\ lastFit' =
                   IF SetParamsRaises(p) THEN lastFit
                   ELSE [status |-> IF r.failed THEN "raised" ELSE "returned",
                         n_splits |-> r.est.n_splits, nX |-> Len(X),
                         prev |-> Len(est.lists["models"]) > 0,
                         error |-> r.error]
            /\ UNCHANGED notWrapper

NextWrapper == WSetParams \/ WClone \/ WFit \/ WFitAndScore

SpecWrapper == InitWrapper /\ [][NextWrapper]_vars

\* ------------------------------------------------------------------------
\* RandomizedSearchReconstructionCV
\* ------------------------------------------------------------------------

\* The matrix lists a search is run on: any number of valid matrices, a
\* degenerate one, and lists that make the wrapper's fit raise at its first
\* or at its second matrix.
SearchInputs ==
    {X \in Inputs : \A i \in 1..Len(X) : X[i] = "ok"}
        \cup {<<"degenerate">>, <<"bad1d">>, <<"ok", "bad1d">>,
              <<"nanrow", "ok">>}

\* Number of points of a parameter grid or of a distribution's support.
MaxGrid == 2

\* param_distributions: grid is the set of dictionaries it can yield (the
\* points of the ParameterGrid, or the support of the distributions) and
\* lists tells whether every value is a list, none an object with rvs.
ParamDistributions ==
    {pd \in [lists : BOOLEAN, grid : SUBSET CandidateParameters] :
        Cardinality(pd.grid) \in 1..MaxGrid}

\* list(ParameterSampler(param_distributions, n_iter)): when every value is
\* a list the points are drawn without replacement and a grid smaller than
\* n_iter is yielded whole (with a warning); otherwise n_iter dictionaries
\* are drawn independently.
ParameterSampler(param_distributions, n_iter) ==
    IF param_distributions.lists
    THEN LET grid_size == Cardinality(param_distributions.grid)
             n == IF grid_size < n_iter THEN grid_size ELSE n_iter
         IN  {c \in [1..n -> param_distributions.grid] :
                 \A i, j \in 1..n : i # j => c[i] # c[j]}
    ELSE [1..n_iter -> param_distributions.grid]

Pending == [status |-> "pending", recs |-> << >>]

\* The records of one job, each carrying the candidate whose fitted models
\* it holds.
Tag(recs, c) == [i \in 1..Len(recs) |-> [rec |-> recs[i], cand |-> c]]

\* objective(clone(base_estimator), X, log_queue, i, parameters=...)
RandomizedObjective(base_estimator, X, parameters, i) ==
    LET r == fit_and_score(clone(base_estimator), X, parameters)
    IN  [status |-> r.status, recs |-> Tag(r.recs, i)]

\* out = [i for j in out for i in j]
RECURSIVE Flatten(_)
Flatten(outs) ==
    IF outs = << >> THEN << >>
    ELSE Head(outs).recs \o Flatten(Tail(outs))

\* The consistency check of evaluate_candidates, read as "at least".
CheckCountsAtLeast(n_out, n_candidates, n_splits) ==
    IF n_out < 1 THEN "No fits were performed."
    ELSE IF n_out < n_candidates * n_splits
    THEN "Returned fits not consistent with size of parameter space."
    ELSE NoError

\* The consistency check of evaluate_candidates: the message of the
\* ValueError it raises, or NoError.
CheckCounts(n_out, n_candidates, n_splits) ==
    IF n_out < 1 THEN "No fits were performed."
    ELSE IF n_out # n_candidates * n_splits
    THEN "Returned fits not consistent with size of parameter space."
    ELSE NoError

\* BaseSearchCV._format_results(candidate_params, n_splits, out): the score
\* dictionaries are aggregated key by key (a record without scores is a
\* KeyError) and reshaped to (n_candidates, n_splits), one row per candidate.
format_results(candidate_params, n_splits, out) ==
    IF \E i \in 1..Len(out) : ~out[i].rec.scored
    THEN [ok |-> FALSE, error |-> "KeyError: 'test_scores'",
          params |-> << >>, rows |-> << >>]
    ELSE IF Len(out) # Len(candidate_params) * n_splits
    THEN [ok |-> FALSE, error |-> "cannot reshape array",
          params |-> << >>, rows |-> << >>]
    ELSE [ok |-> TRUE, error |-> NoError,
          params |-> candidate_params,
          rows |-> [c \in 1..Len(candidate_params) |->
                       SubSeq(out, (c - 1) * n_splits + 1, c * n_splits)]]

InitRandom ==
    /\ IdleExcept("random")
    /\ \E st \in SplitterTypes, n \in 0..MaxSplits, it \in 0..MaxIter,
          pd \in ParamDistributions :
           rcv = [NoSearch EXCEPT !.estimator = NMFMaskWrapper(st, n),
                                  !.n_iter = it,
                                  !.param_distributions = pd]
    /\ rX = << >>
    /\ rCands = << >>
    /\ rOut = << >>
    /\ rRun = NoRun

\* fit(X) up to the dispatch of the jobs: _run_search draws the candidates
\* and evaluate_candidates hands one job per candidate to the pool.
RFitBegin ==
    /\ rRun.pc = "idle"
    /\ \E X \in SearchInputs, cands \in ParameterSampler(rcv.param_distributions, rcv.n_iter) :
           /\ rX' = X
           /\ rCands' = cands
           /\ rOut' = [i \in 1..Len(cands) |-> Pending]
    /\ rRun' = [rRun EXCEPT !.pc = "running"]
    /\ UNCHANGED <<rcv, notRandom>>

\* One job of the pool runs to its end; an exception leaving the job is
\* re-raised by the pool and ends the search's fit.
RJob ==
    /\ rRun.pc = "running"
    /\ \E i \in 1..Len(rOut) :
           /\ rOut[i] = Pending
           /\ LET r == RandomizedObjective(clone(rcv.estimator), rX, rCands[i], i)
              IN  /\ rOut' = [rOut EXCEPT ![i] = r]
                  /\ rRun' = IF r.status = "raised"
                             THEN [rRun EXCEPT !.pc = "raised",
                                               !.error = "job raised"]
                             ELSE rRun
    /\ UNCHANGED <<rcv, rX, rCands, notRandom>>

\* The rest of fit once every job has returned: flatten, check the counts,
\* build the table, then set best_index_, best_score_, best_params_,
\* cv_results and n_splits_.
REvaluate ==
    /\ rRun.pc = "running"
    /\ \A i \in 1..Len(rOut) : rOut[i].status = "returned"
    /\ LET n_splits == rcv.estimator.n_splits
           n_candidates == Len(rCands)
           out == Flatten(rOut)
           err == CheckCounts(Len(out), n_candidates, n_splits)
           results == format_results(rCands, n_splits, out)
       IN  IF err # NoError
           THEN /\ rRun' = [rRun EXCEPT !.pc = "raised", !.error = err]
                /\ UNCHANGED rcv
           ELSE IF ~results.ok
           THEN /\ rRun' = [rRun EXCEPT !.pc = "raised", !.aggregated = TRUE,
                                        !.error = results.error]
                /\ UNCHANGED rcv
           ELSE /\ rRun' = [rRun EXCEPT !.pc = "done", !.aggregated = TRUE]
                /\ \E best \in 1..n_candidates :
                       rcv' = [rcv EXCEPT !.fitted = TRUE,
                                          !.cv_results = results.rows,
                                          !.n_records = Len(out),
                                          !.params = results.params,
                                          !.best_index_ = best,
                                          !.best_score_ = results.rows[best],
                                          !.best_params_ = results.params[best],
                                          !.n_splits_ = n_splits]
    /\ UNCHANGED <<rX, rCands, rOut, notRandom>>

NextRandom == RFitBegin \/ RJob \/ REvaluate

SpecRandom == InitRandom /\ [][NextRandom]_vars

\* ------------------------------------------------------------------------
\* Properties of the wrapper and of _fit_and_score
\* ------------------------------------------------------------------------

\* C1: once the latest fit has returned, every tracked per-fit list has
\* exactly n_splits * len(X) entries, whatever earlier fits left behind and
\* whichever fits took the all-zero fallback.
C1_ListLengths ==
    lastFit.status = "returned" =>
        \A l \in TrackedLists :
            Len(est.lists[l]) = lastFit.n_splits * lastFit.nX

\* A second or later fit has returned over lists that an earlier fit had
\* filled, with fitted and fallback factorizations among its entries.
C1_Witness ==
    /\ lastFit.status = "returned"
    /\ lastFit.prev
    /\ lastFit.n_splits * lastFit.nX >= 2
    /\ \E i, k \in 1..Len(est.lists["models"]) :
           /\ est.lists["models"][i].res = "fallback"
           /\ est.lists["models"][k].res = "fit"

\* C2: a successful fit-and-score returns n_splits records and record i
\* (counted from 0) is made only of values computed in splitter iteration i.
C2_RecordPerSplit ==
    (fsOut.status = "returned" /\ ~fsOut.failed) =>
        /\ Len(fsOut.recs) = fsOut.n_splits
        /\ \A i \in 1..Len(fsOut.recs) :
               /\ fsOut.recs[i].estimator.split = i - 1
               /\ fsOut.recs[i].n_test_samples.split = i - 1
               /\ \A k \in ScoreNames :
                      /\ fsOut.recs[i].test_scores[k].split = i - 1
                      /\ fsOut.recs[i].train_scores[k].split = i - 1

\* C3: when set_params or fit raised, the routine still returns n_splits
\* placeholder records carrying the error string and no scores.
C3_FailureYieldsPlaceholders ==
    fsOut.failed =>
        /\ fsOut.status = "returned"
        /\ Len(fsOut.recs) = fsOut.n_splits
        /\ \A i \in 1..Len(fsOut.recs) :
               /\ fsOut.recs[i].fit_error # NoError
               /\ ~fsOut.recs[i].scored

\* C11: a fit of a wrapper whose splitter_type is not supported raises the
\* validation error and leaves the per-fit lists as they were before the
\* call.
C11_InvalidSplitterKeepsState ==
    [][(WFit /\ ~ValidSplitter(est.splitter_type))
          => /\ lastFit'.error = "Invalid splitter type"
             /\ est'.lists = est.lists]_vars

\* C12: a fit of a wrapper whose splitter_type is one of the documented
\* values, 'Masking' or 'Sample', does not end in the invalid-splitter error.
C12_DocumentedSplittersAccepted ==
    [][(WFit /\ est.splitter_type \in {"Masking", "Sample"})
          => lastFit'.error # "Invalid splitter type"]_vars

\* ------------------------------------------------------------------------
\* Properties of the randomized driver
\* ------------------------------------------------------------------------
RTotal == Len(Flatten(rOut))

RAllReturned == \A i \in 1..Len(rOut) : rOut[i].status = "returned"

RNothingSet ==
    /\ ~rcv.fitted
    /\ rcv.cv_results = << >>
    /\ rcv.best_index_ = 0
    /\ rcv.best_params_ = << >>
    /\ rcv.best_score_ = << >>

\* C4: the table is built only when the number of returned fold records is
\* n_candidates * n_splits; a batch whose total is zero or different ends in
\* a ValueError with no table and no best_* attribute set.
C4_CountGate ==
    /\ rRun.aggregated => RTotal = Len(rCands) * rcv.estimator.n_splits
    /\ (/\ rRun.pc \in {"done", "raised"}
        /\ RAllReturned
        /\ (RTotal = 0 \/ RTotal # Len(rCands) * rcv.estimator.n_splits))
       => /\ rRun.error \in
                 {"No fits were performed.",
                  "Returned fits not consistent with size of parameter space."}
          /\ ~rRun.aggregated
          /\ RNothingSet

\* Every job returned, the total is neither zero nor n_candidates * n_splits
\* and the fit ended in the consistency error.
C4_Witness ==
    /\ rRun.pc = "raised"
    /\ RAllReturned
    /\ RTotal > 0
    /\ Len(rCands) * rcv.estimator.n_splits > 0
    /\ RTotal # Len(rCands) * rcv.estimator.n_splits
    /\ rRun.error = "Returned fits not consistent with size of parameter space."

\* C5: after a successful fit with n_iter candidates the table is built from
\* n_iter * n_splits fold records and has n_iter rows, and row c is made of
\* the records that candidate c returned.
C5_Table ==
    (rRun.pc = "done" /\ Len(rCands) = rcv.n_iter) =>
        /\ rcv.n_records = rcv.n_iter * rcv.estimator.n_splits
        /\ Len(rcv.cv_results) = rcv.n_iter
        /\ Len(rcv.params) = rcv.n_iter
        /\ \A c \in 1..rcv.n_iter :
               /\ rcv.cv_results[c] = rOut[c].recs
               /\ rcv.params[c] = rCands[c]

\* Some candidate's records carry the error string of a failed fit.
RSomeFitFailed ==
    \E c \in 1..Len(rOut) :
        \E i \in 1..Len(rOut[c].recs) : rOut[c].recs[i].rec.fit_error # NoError

\* C18: when every job has returned, some candidate's fit had failed and the
\* records add up to n_candidates * n_splits, the search completes with a
\* table of one row per candidate, aligned with the candidate list.
C18_FailureTolerated ==
    (/\ rRun.pc \in {"done", "raised"}
     /\ RAllReturned
     /\ RSomeFitFailed
     /\ RTotal > 0
     /\ RTotal = Len(rCands) * rcv.estimator.n_splits)
        => /\ rRun.pc = "done"
           /\ Len(rcv.cv_results) = Len(rCands)
           /\ rcv.params = rCands

\* ------------------------------------------------------------------------
\* OptunaSearchReconstructionCV
\* ------------------------------------------------------------------------

\* Worker counts (n_jobs) a search is run with.
JobCounts == {1, 2}

\* objective_params: two metrics of the score dictionaries, or a name that
\* no score dictionary holds.
ObjectiveParams ==
    {<<"weight_orthogonality", "nonzero_component_fraction">>, <<"unknown">>}

\* What a trial can sample from param_sampling: string-valued entries are
\* categorical, so splitter_type can be drawn; numbers are drawn as floats,
\* so no integer n_splits can.
TrialParameters ==
    {p \in Parameters : p.keys \subseteq {"splitter_type"}
                        /\ p.splitter_type # "Mask"}
        \cup {p \in Parameters : p.keys = {}}

\* n_trials handed to each worker.
TrialsPerWorker(n_iter, n_jobs) == (n_iter \div n_jobs) + 1

\* One None of the placeholder list, kept with the trial it is stored on.
NoneRecord(number) ==
    [rec |-> [test_scores |-> NoScores, train_scores |-> NoScores,
              n_test_samples |-> Absent, estimator |-> Absent,
              scored |-> FALSE, fit_error |-> NoError],
     cand |-> number]

\* The except branch of objective with the error attribute left unset.
PrunedTrialNoError(number, params, msg, n_splits, fit_failed) ==
    [number |-> number, params |-> params, error |-> NoError,
     out |-> [i \in 1..n_splits |-> NoneRecord(number)],
     state |-> "PRUNED", values |-> << >>, fit_failed |-> fit_failed]

\* The except branch of objective: the error attribute is set, "out" becomes
\* [None] * n_splits and TrialPruned is raised, so the trial has no values.
PrunedTrial(number, params, msg, n_splits, fit_failed) ==
    [number |-> number, params |-> params, error |-> msg,
     out |-> [i \in 1..n_splits |-> NoneRecord(number)],
     state |-> "PRUNED", values |-> << >>, fit_failed |-> fit_failed]

\* A trial that study.optimize has created and whose objective is running.
RunningTrial(number, params) ==
    [number |-> number, params |-> params, error |-> NoError, out |-> << >>,
     state |-> "RUNNING", values |-> << >>, fit_failed |-> FALSE]

\* objective(trial) for the trial of a given number and sampled parameters.
\* fit_failed notes that _fit_and_score returned records with a fit error.
\* With no record at all the objective values are means of nothing (NaN),
\* which the study records as a failed trial.
objective(base_estimator, X, objective_params, number, params) ==
    LET r == fit_and_score(clone(base_estimator), X, params)
        n == base_estimator.n_splits
        failed == r.status = "returned"
                  /\ \E i \in 1..Len(r.recs) :
                         r.recs[i].fit_error \notin {NoError, ""}
    IN  IF r.status = "raised"
        THEN PrunedTrial(number, params, "list index out of range", n, FALSE)
        ELSE IF failed
        THEN PrunedTrial(number, params, "One or more fits failed in cv.", n,
                         TRUE)
        ELSE IF /\ Len(r.recs) > 0
                /\ \E i \in 1..Len(objective_params) :
                       objective_params[i] \notin ScoreNames
        THEN PrunedTrial(number, params, "unsupported operand type(s)", n,
                         FALSE)
        ELSE IF Len(r.recs) = 0
        THEN [number |-> number, params |-> params, error |-> NoError,
              out |-> << >>, state |-> "FAIL", values |-> << >>,
              fit_failed |-> FALSE]
        ELSE [number |-> number, params |-> params, error |-> NoError,
              out |-> Tag(r.recs, number), state |-> "COMPLETE",
              values |-> objective_params, fit_failed |-> FALSE]

\* not t.user_attrs.get("error", None)
NotErrored(t) == t.error \in {NoError, ""}

\* The records of every trial, in trial order, whatever its error attribute.
RECURSIVE AllOutUnfiltered(_)
AllOutUnfiltered(trials) ==
    IF trials = << >> THEN << >>
    ELSE Head(trials).out \o AllOutUnfiltered(Tail(trials))

\* all_out: the records of the trials that pass the filter, in trial order.
RECURSIVE AllOut(_)
AllOut(trials) ==
    IF trials = << >> THEN << >>
    ELSE (IF NotErrored(Head(trials)) THEN Head(trials).out ELSE << >>)
             \o AllOut(Tail(trials))

\* The candidate list without the filter on the error attribute.
AllCandidateParamsUnfiltered(trials) ==
    [i \in 1..Len(trials) |->
        [trial |-> trials[i].number, params |-> trials[i].params]]

\* all_candidate_params: t.params of the trials that pass the filter.
RECURSIVE AllCandidateParams(_)
AllCandidateParams(trials) ==
    IF trials = << >> THEN << >>
    ELSE (IF NotErrored(Head(trials))
          THEN <<[trial |-> Head(trials).number, params |-> Head(trials).params]>>
          ELSE << >>)
             \o AllCandidateParams(Tail(trials))

\* The count check of the Optuna driver, with the randomized driver's test.
OptunaCheckCountsExact(n_out, n_iter, n_splits) ==
    IF n_out < 1 THEN "No fits were performed."
    ELSE IF n_out # n_iter * n_splits
    THEN "Returned fits not consistent with size of parameter space."
    ELSE NoError

\* The count check of the Optuna driver: the message of the ValueError it
\* raises, or NoError.
OptunaCheckCounts(n_out, n_iter, n_splits) ==
    IF n_out < 1 THEN "No fits were performed."
    ELSE IF n_out < n_iter * n_splits
    THEN "Returned fits not consistent with size of parameter space."
    ELSE NoError

\* The sets of trials that can be the Pareto front of the study: trials
\* that are complete, at least one of them when there is any.  Which of them
\* dominate depends on the objective values, which are not modelled as
\* numbers.
ParetoFronts(trials) ==
    LET complete == {i \in 1..Len(trials) : trials[i].state = "COMPLETE"}
    IN  IF complete = {} THEN {{}} ELSE (SUBSET complete) \ {{}}

\* study.best_trials: the trials of the Pareto front, in study order.
RECURSIVE best_trials(_, _, _)
best_trials(trials, front, i) ==
    IF i > Len(trials) THEN << >>
    ELSE (IF i \in front THEN <<trials[i].number>> ELSE << >>)
             \o best_trials(trials, front, i + 1)

InitOptuna ==
    /\ IdleExcept("optuna")
    /\ \E st \in SplitterTypes, n \in 0..MaxSplits, it \in 1..MaxIter,
          jobs \in JobCounts, obj \in ObjectiveParams :
           ocv = [NoOptunaSearch EXCEPT !.estimator = NMFMaskWrapper(st, n),
                                        !.n_iter = it, !.n_jobs = jobs,
                                        !.objective_params = obj]
    /\ oX = << >>
    /\ oStudy = << >>
    /\ oWorkers = << >>
    /\ oRun = NoOptunaRun

\* fit(X) up to the dispatch of the workers: the storage file and the study
\* are created and each of the n_jobs workers is given its number of trials.
OFitBegin ==
    /\ oRun.pc = "idle"
    /\ \E X \in SearchInputs : oX' = X
    /\ oWorkers' = [w \in 1..ocv.n_jobs |->
                       [left |-> TrialsPerWorker(ocv.n_iter, ocv.n_jobs),
                        running |-> 0]]
    /\ oRun' = [oRun EXCEPT !.pc = "optimizing", !.storage = "open",
                            !.n_trials = TrialsPerWorker(ocv.n_iter, ocv.n_jobs)]
    /\ UNCHANGED <<ocv, oStudy, notOptuna>>

\* The pool taken to be done as soon as one worker is.
SomeWorkerFinished(workers) == \E w \in 1..Len(workers) : workers[w].left = 0

\* parallel(...) returns: study.optimize has returned in every worker.
WorkersFinished(workers) == \A w \in 1..Len(workers) : workers[w].left = 0

\* One worker begins its next trial: the trial is created in the study with
\* the next number and samples its parameters.
OTrialStart ==
    /\ oRun.pc = "optimizing"
    /\ \E w \in 1..Len(oWorkers), params \in TrialParameters :
           /\ oWorkers[w].left > 0
           /\ oWorkers[w].running = 0
           /\ oWorkers' = [oWorkers EXCEPT ![w].running = Len(oStudy) + 1]
           /\ oStudy' = Append(oStudy, RunningTrial(Len(oStudy) + 1, params))
    /\ UNCHANGED <<ocv, oX, oRun, notOptuna>>

\* The objective of a running trial ends: the trial is stored complete,
\* failed or pruned.
OTrialFinish ==
    /\ oRun.pc = "optimizing"
    /\ \E w \in 1..Len(oWorkers) :
           LET t == oWorkers[w].running
           IN  /\ t # 0
               /\ oWorkers' = [oWorkers EXCEPT ![w] =
                                   [left |-> @.left - 1, running |-> 0]]
               /\ oStudy' = [oStudy EXCEPT ![t] =
                                 objective(clone(ocv.estimator), oX,
                                           ocv.objective_params, t,
                                           oStudy[t].params)]
               /\ oRun' = [oRun EXCEPT !.out_of_order =
                               @ \/ \E u \in 1..(t - 1) :
                                        oStudy[u].state = "RUNNING"]
    /\ UNCHANGED <<ocv, oX, notOptuna>>

\* Every worker has finished: the with block is left and the storage file
\* is removed.
OClose ==
    /\ oRun.pc = "optimizing"
    /\ WorkersFinished(oWorkers)
    /\ oRun' = [oRun EXCEPT !.pc = "collect", !.storage = "deleted"]
    /\ UNCHANGED <<ocv, oX, oStudy, oWorkers, notOptuna>>

\* The rest of fit: study.trials is read (after the storage file was
\* removed; the read is taken to succeed), the records of the trials are
\* collected and counted, the candidate list and the table are built and the
\* best_* attributes set.
\* all_out and all_candidate_params are kept as they were handed to
\* _format_results.
OEvaluate ==
    /\ oRun.pc = "collect"
    /\ LET n_splits == ocv.estimator.n_splits
           all_out == AllOut(oStudy)
           err == OptunaCheckCounts(Len(all_out), ocv.n_iter, n_splits)
           all_candidate_params == AllCandidateParams(oStudy)
           results == format_results(all_candidate_params, n_splits, all_out)
       IN  IF err # NoError
           THEN /\ oRun' = [oRun EXCEPT !.pc = "raised", !.error = err]
                /\ UNCHANGED ocv
           ELSE IF ~results.ok
           THEN /\ oRun' = [oRun EXCEPT !.pc = "raised", !.aggregated = TRUE,
                                        !.error = results.error]
                /\ ocv' = [ocv EXCEPT !.params = all_candidate_params,
                                      !.n_records = Len(all_out)]
           ELSE /\ oRun' = [oRun EXCEPT !.pc = "done", !.aggregated = TRUE]
                /\ \E best \in 1..Len(all_candidate_params),
                      front \in ParetoFronts(oStudy) :
                       ocv' = [ocv EXCEPT
                                  !.fitted = TRUE,
                                  !.cv_results = results.rows,
                                  !.n_records = Len(all_out),
                                  !.params = all_candidate_params,
                                  !.best_index_ = best,
                                  !.best_score_ = results.rows[best],
                                  !.best_params_ = results.params[best],
                                  !.best_trials_ = best_trials(oStudy, front, 1),
                                  !.n_splits_ = n_splits]
    /\ UNCHANGED <<oX, oStudy, oWorkers, notOptuna>>

NextOptuna ==
    OFitBegin \/ OTrialStart \/ OTrialFinish \/ OClose \/ OEvaluate

SpecOptuna == InitOptuna /\ [][NextOptuna]_vars

\* ------------------------------------------------------------------------
\* Properties of the Optuna driver
\* ------------------------------------------------------------------------
OTotal == Len(AllOut(oStudy))

ONothingSet ==
    /\ ~ocv.fitted
    /\ ocv.cv_results = << >>
    /\ ocv.best_index_ = 0
    /\ ocv.best_params_ = << >>
    /\ ocv.best_score_ = << >>
    /\ ocv.best_trials_ = << >>

\* Trial t has an entry in the candidate list handed to the aggregation.
InCandidateList(t) ==
    \E i \in 1..Len(ocv.params) : ocv.params[i].trial = t

\* Trial t has a fold record in the result table.
InTable(t) ==
    \E c \in 1..Len(ocv.cv_results) :
        \E i \in 1..Len(ocv.cv_results[c]) : ocv.cv_results[c][i].cand = t

\* C6: once the aggregation has run, a trial that carries the error
\* attribute is neither in the candidate list nor in the result table, and a
\* trial without it is in the candidate list and, when the table is built,
\* has its fold records in it.
C6_ErroredTrialsExcluded ==
    oRun.aggregated =>
        \A t \in 1..Len(oStudy) :
            IF oStudy[t].error # NoError
            THEN ~InCandidateList(t) /\ ~InTable(t)
            ELSE /\ InCandidateList(t)
                 /\ oRun.pc = "done" => InTable(t)

\* A fit has completed over a study that holds both a trial whose objective
\* raised and a trial that completed.
C6_Witness ==
    /\ oRun.pc = "done"
    /\ \E t \in 1..Len(oStudy) : oStudy[t].error # NoError
    /\ \E t \in 1..Len(oStudy) : oStudy[t].error = NoError /\ InTable(t)

\* C7: every worker is given ceil(n_iter / n_workers) trials.
C7_CeilTrialsPerWorker ==
    oRun.pc # "idle" =>
        oRun.n_trials = (ocv.n_iter + ocv.n_jobs - 1) \div ocv.n_jobs

\* C8: after the workers have finished, a record count of zero or below
\* n_iter * n_splits ends the fit in a ValueError with nothing set; any other
\* count lets the aggregation run and the fit complete.
C8_CountGate ==
    oRun.pc \in {"done", "raised"} =>
        IF OTotal = 0 \/ OTotal < ocv.n_iter * ocv.estimator.n_splits
        THEN /\ oRun.pc = "raised"
             /\ oRun.error \in
                    {"No fits were performed.",
                     "Returned fits not consistent with size of parameter space."}
             /\ ~oRun.aggregated
             /\ ONothingSet
        ELSE /\ oRun.aggregated
             /\ oRun.pc = "done"
             /\ ocv.fitted

\* Some trials completed, but too few to reach n_iter * n_splits records, and
\* the fit ended in the consistency error.
C8_Witness ==
    /\ oRun.pc = "raised"
    /\ OTotal > 0
    /\ OTotal < ocv.n_iter * ocv.estimator.n_splits
    /\ oRun.error = "Returned fits not consistent with size of parameter space."

\* C9: a trial whose fit-and-score returned a record with a fit error has no
\* objective values, carries the error attribute, stores n_splits empty
\* records as its output and is pruned.
C9_FitErrorPrunes ==
    \A t \in 1..Len(oStudy) :
        oStudy[t].fit_failed =>
            /\ oStudy[t].values = << >>
            /\ oStudy[t].error # NoError
            /\ oStudy[t].out =
                   [i \in 1..ocv.estimator.n_splits |-> NoneRecord(t)]
            /\ oStudy[t].state = "PRUNED"

\* A trial whose records carried a fit error is in the study of a search
\* with at least one split.
C9_Witness ==
    /\ ocv.estimator.n_splits >= 1
    /\ \E t \in 1..Len(oStudy) :
           oStudy[t].fit_failed /\ Len(oStudy[t].out) >= 1

\* C28: whenever the aggregation has run, the number of fold records handed
\* to it is n_splits times the number of candidate rows handed to it, and in
\* the table it builds the records of row c are those of the trial whose
\* parameters are candidate c, whatever trials errored, however many trials
\* ran beyond n_iter and in whatever order the trials ended.
C28_RecordsMatchCandidates ==
    oRun.aggregated =>
        /\ ocv.n_records = ocv.estimator.n_splits * Len(ocv.params)
        /\ oRun.pc = "done" =>
               /\ Len(ocv.cv_results) = Len(ocv.params)
               /\ \A c \in 1..Len(ocv.params) :
                      /\ Len(ocv.cv_results[c]) = ocv.estimator.n_splits
                      /\ \A i \in 1..Len(ocv.cv_results[c]) :
                             ocv.cv_results[c][i].cand = ocv.params[c].trial

\* A fit of two workers has completed with more candidate rows than n_iter,
\* over a study in which a trial errored and a trial ended before a trial
\* of a lower number.
C28_Witness ==
    /\ oRun.pc = "done"
    /\ oRun.aggregated
    /\ oRun.out_of_order
    /\ ocv.estimator.n_splits >= 1
    /\ Len(ocv.params) > ocv.n_iter
    /\ \E t \in 1..Len(oStudy) : oStudy[t].error # NoError
    /\ \E c \in 1..Len(ocv.params) : ocv.params[c].trial # c

\* C23: every step that writes or reads the trials of the study (the start
\* and the end of a trial in a worker, and the aggregation that reads
\* study.trials and study.best_trials) is taken while the storage file
\* exists.
C23_TrialsAccessedWhileStorageExists ==
    [][(OTrialStart \/ OTrialFinish \/ OEvaluate)
          => oRun.storage = "open"]_vars

\* ------------------------------------------------------------------------
\* The two search drivers side by side: a behaviour is one fit of a
\* randomized search or one fit of an Optuna search.
\* ------------------------------------------------------------------------
InitSearch == InitRandom \/ InitOptuna

NextSearch ==
    \/ ocv.n_jobs = 0 /\ NextRandom
    \/ ocv.n_jobs > 0 /\ NextOptuna

SpecSearch == InitSearch /\ [][NextSearch]_vars

\* The result attributes of a search object.
ResultsOf(cv) ==
    <<cv.fitted, cv.cv_results, cv.best_index_, cv.best_score_,
      cv.best_params_>>

\* The trials of the study that have ended without the error attribute.
FinishedNotErrored ==
    {t \in 1..Len(oStudy) : oStudy[t].state # "RUNNING" /\ NotErrored(oStudy[t])}

\* C19: the result table and the best_* attributes of a search change only
\* in one step, taken when every job or worker has finished and nothing was
\* set before; that step sets all of them, and the rows of the table are the
\* candidates (randomized) or exactly the finished trials without error
\* (Optuna), whatever the order in which jobs and trials ended.
C19_ResultsAssignedOnce ==
    [][/\ ResultsOf(rcv') # ResultsOf(rcv) =>
              /\ RAllReturned
              /\ RNothingSet
              /\ rcv'.fitted
              /\ rcv'.params = rCands
              /\ Len(rcv'.cv_results) = Len(rCands)
       /\ ResultsOf(ocv') # ResultsOf(ocv) =>
              /\ \A w \in 1..Len(oWorkers) :
                     oWorkers[w].left = 0 /\ oWorkers[w].running = 0
              /\ \A t \in 1..Len(oStudy) : oStudy[t].state # "RUNNING"
              /\ ONothingSet
              /\ ocv'.fitted
              /\ {ocv'.params[c].trial : c \in 1..Len(ocv'.params)}
                     = FinishedNotErrored
              /\ Len(ocv'.cv_results) = Len(ocv'.params)
              /\ \A c \in 1..Len(ocv'.cv_results) :
                     \A i \in 1..Len(ocv'.cv_results[c]) :
                         ocv'.cv_results[c][i].cand = ocv'.params[c].trial]_vars

\* An Optuna search with two workers has completed though a trial ended
\* before a trial of a lower number and one trial carries an error.
C19_Witness ==
    /\ oRun.pc = "done"
    /\ ocv.fitted
    /\ ocv.n_jobs = 2
    /\ oRun.out_of_order
    /\ \E t \in 1..Len(oStudy) : ~NotErrored(oStudy[t])

\* ------------------------------------------------------------------------
\* OptimizationParameters
\* ------------------------------------------------------------------------
components_in_window == 8
components == 20
scan_width == 150
component_sigma == 3

\* set_params: the target of each metric, in hundredths.
Scores ==
    [weight_orthogonality |-> 0,
     sample_orthogonality |-> 0,
     nonzero_component_fraction |-> (100 * components_in_window) \div components,
     mean_weight_sparsity |-> -100,
     mean_sample_sparsity |-> -100,
     fraction_window_component |->
         (100 * components_in_window * 4 * component_sigma) \div scan_width]

Abs(x) == IF x < 0 THEN -x ELSE x

\* score(param, value) under the error norm of the object.  Values and L1
\* results are in hundredths, L2 results in ten-thousandths.
score(error, param, value) ==
    IF param \in DOMAIN Scores
    THEN IF error = "l1" THEN -1 * Abs(value + Scores[param])
         ELSE IF error = "l2"
         THEN -1 * ((value + Scores[param]) * (value + Scores[param]))
         ELSE value
    ELSE value

\* Metric names passed to score: the six with a target and one without.
ScoredParams == DOMAIN Scores \cup {"score"}

\* Metric values passed to score, in hundredths: the targets, their
\* negations and values on both sides of them.
ScoreValues == {-100, -64, -40, -20, 0, 20, 40, 64, 100}

InitScore ==
    /\ IdleExcept("score")
    /\ sError \in {"l1", "l2"}
    /\ sPrev = NoScore
    /\ sCur = NoScore

\* One call of score; the call before it is kept for comparison.
Score ==
    /\ \E param \in ScoredParams, value \in ScoreValues :
           sCur' = [param |-> param, value |-> value,
                    result |-> score(sError, param, value)]
    /\ sPrev' = sCur
    /\ UNCHANGED <<sError, notScore>>

NextScore == Score

SpecScore == InitScore /\ [][NextScore]_vars

\* C10: for a metric with a target, score is minus the distance (L1) or
\* minus the squared distance (L2) between value and target: it is 0 exactly
\* at value = target and strictly smaller the farther value is from it.
C10_ScoreIsNegatedDistance ==
    sCur.param \in DOMAIN Scores =>
        LET t == Scores[sCur.param]
        IN  /\ sCur.result =
                   IF sError = "l1" THEN -1 * Abs(sCur.value - t)
                   ELSE -1 * ((sCur.value - t) * (sCur.value - t))
            /\ sCur.result = 0 <=> sCur.value = t
            /\ (/\ sPrev.param = sCur.param
                /\ Abs(sPrev.value - t) < Abs(sCur.value - t))
               => sPrev.result > sCur.result

\* ------------------------------------------------------------------------
\* MzBinMaskingSplitter and MzBinSampleSplitter
\* ------------------------------------------------------------------------

\* Number of generators obtained from one splitter.
MaxCalls == 2

\* An array is its shape and its entries in row-major order.
Size(a) == Len(a.data)

\* The matrices handed to split: a 2 x 2 matrix with two zero entries and a
\* 1 x 2 matrix without any.
SplitMatrices ==
    {[shape |-> <<2, 2>>, data |-> <<1, 0, 0, 1>>],
     [shape |-> <<1, 2>>, data |-> <<1, 1>>]}

SplitInputs == SeqsUpTo(SplitMatrices, MaxMats)

\* mask_fraction, in hundredths.
MaskFractions == {0, 50, 100}

RandomStates == {1, 42}

\* np.where(cond.flatten())[0]: the flat indices, in order, of the positive
\* entries (zero = FALSE) or of the zero entries (zero = TRUE).
RECURSIVE Where(_, _, _)
Where(data, zero, k) ==
    IF k > Len(data) THEN << >>
    ELSE (IF (zero /\ data[k] = 0) \/ (~zero /\ data[k] > 0)
          THEN <<k>> ELSE << >>) \o Where(data, zero, k + 1)

\* Position of flat index k in a sequence of indices, 0 when absent.
PosIn(idx, k) ==
    IF \E i \in 1..Len(idx) : idx[i] = k
    THEN CHOOSE i \in 1..Len(idx) : idx[i] = k
    ELSE 0

CountTrue(data) == Cardinality({k \in 1..Len(data) : data[k]})

\* sub_mask of MzBinMaskingSplitter.split for one matrix, and the generator
\* state after its draws.
MaskingSubMask(sp, m, rng) ==
    IF ~sp.mask_signal
    THEN LET r == Random(rng, Size(m))
         IN  [mask |-> [shape |-> m.shape,
                        data |-> [k \in 1..Size(m) |->
                                     Below(r.vals[k], sp.mask_fraction, 100)]],
              rng |-> r.rng]
    ELSE LET non_zero_idxes == Where(m.data, FALSE, 1)
             r1 == Random(rng, Len(non_zero_idxes))
             flat1 == [k \in 1..Size(m) |->
                          /\ PosIn(non_zero_idxes, k) > 0
                          /\ Below(r1.vals[PosIn(non_zero_idxes, k)],
                                   sp.mask_fraction, 100)]
             zero_idxes == Where(m.data, TRUE, 1)
             r2 == Random(r1.rng, Len(zero_idxes))
             flat2 == [k \in 1..Size(m) |->
                          \/ flat1[k]
                          \/ /\ PosIn(zero_idxes, k) > 0
                             /\ Below(r2.vals[PosIn(zero_idxes, k)],
                                      CountTrue(flat1), Size(m))]
         IN  IF sp.balance_mask_signal
             THEN [mask |-> [shape |-> m.shape, data |-> flat2], rng |-> r2.rng]
             ELSE [mask |-> [shape |-> m.shape, data |-> flat1], rng |-> r1.rng]

\* sub_mask of MzBinSampleSplitter.split for one matrix: one entry per row.
SampleSubMask(sp, m, rng) ==
    LET r == Random(rng, m.shape[1])
    IN  [mask |-> [shape |-> <<m.shape[1]>>,
                   data |-> [k \in 1..m.shape[1] |->
                                Below(r.vals[k], sp.mask_fraction, 100)]],
         rng |-> r.rng]

SubMask(sp, m, rng) ==
    IF sp.type = "Mask" THEN MaskingSubMask(sp, m, rng)
    ELSE SampleSubMask(sp, m, rng)

\* The train mask taken to be the test mask itself.
Same(mask) == mask

\* ~sub_mask
Invert(mask) == [mask EXCEPT !.data = [k \in DOMAIN @ |-> ~@[k]]]

\* The inner loop of split from matrix j on: one (unmasked, masked) pair of
\* mask lists and the generator state after it.
RECURSIVE SplitMatrixLoop(_, _, _, _, _, _)
SplitMatrixLoop(sp, X, j, rng, unmasked, masked) ==
    IF j > Len(X) THEN [unmasked |-> unmasked, masked |-> masked, rng |-> rng]
    ELSE LET r == SubMask(sp, X[j], rng)
         IN  SplitMatrixLoop(sp, X, j + 1, r.rng,
                             Append(unmasked, Invert(r.mask)),
                             Append(masked, r.mask))

\* The generator state a call of split starts from, taken over from the
\* latest earlier call instead of being seeded anew.
ContinuedRng(sp, earlier) ==
    IF earlier = << >> \/ ~earlier[Len(earlier)].started
    THEN default_rng(sp.random_state)
    ELSE earlier[Len(earlier)].rng

\* rng = np.random.default_rng(seed=self._random_state): the generator state
\* a call of split starts from, whatever earlier calls have drawn.
SplitRng(sp, earlier) == default_rng(sp.random_state)

\* A generator returned by split: nothing of its body has run.
NewGenerator == [started |-> FALSE, rng |-> default_rng(0), i |-> 0,
                 done |-> FALSE,
                 out |-> << >>]

Splitters ==
    {sp \in [type : {"Mask", "Sample"}, n_splits : 0..MaxSplits,
             mask_fraction : MaskFractions, random_state : RandomStates,
             mask_signal : BOOLEAN, balance_mask_signal : BOOLEAN] :
        sp.type = "Sample" => (~sp.mask_signal /\ ~sp.balance_mask_signal)}

InitSplit ==
    /\ IdleExcept("split")
    /\ splitter \in Splitters
    /\ spX \in SplitInputs
    /\ gens = << >>

\* splitter.split(X): a new generator object.
SplitCall ==
    /\ Len(gens) < MaxCalls
    /\ gens' = Append(gens, NewGenerator)
    /\ UNCHANGED <<splitter, spX, notSplit>>

\* next() on one of the generators: the body runs to its next yield, or to
\* its end when n_splits pairs have been yielded.
SplitNext ==
    \E g \in 1..Len(gens) :
        /\ ~gens[g].done
        /\ LET rng == IF gens[g].started THEN gens[g].rng
                      ELSE SplitRng(splitter, SubSeq(gens, 1, g - 1))
               r == SplitMatrixLoop(splitter, spX, 1, rng, << >>, << >>)
           IN  gens' =
                   [gens EXCEPT ![g] =
                       IF gens[g].i < splitter.n_splits
                       THEN [started |-> TRUE, rng |-> r.rng,
                             i |-> gens[g].i + 1, done |-> FALSE,
                             out |-> Append(gens[g].out,
                                            [unmasked |-> r.unmasked,
                                             masked |-> r.masked])]
                       ELSE [gens[g] EXCEPT !.started = TRUE, !.rng = rng,
                                            !.done = TRUE]]
        /\ UNCHANGED <<splitter, spX, notSplit>>

NextSplit == SplitCall \/ SplitNext

SpecSplit == InitSplit /\ [][NextSplit]_vars

\* ------------------------------------------------------------------------
\* Properties of the splitters
\* ------------------------------------------------------------------------

\* The shape of the mask a splitter makes for matrix m.
MaskShape(m) == IF splitter.type = "Mask" THEN m.shape ELSE <<m.shape[1]>>

\* C13: a generator that has run to its end has yielded exactly n_splits
\* pairs (and never more before); each pair holds one train and one test mask
\* per input matrix, in input order and of that matrix's shape, and each
\* entry is in exactly one of the train mask and the test mask.
C13_SplitPairs ==
    \A g \in 1..Len(gens) :
        /\ Len(gens[g].out) <= splitter.n_splits
        /\ gens[g].done => Len(gens[g].out) = splitter.n_splits
        /\ \A i \in 1..Len(gens[g].out) :
               LET pair == gens[g].out[i]
               IN  /\ Len(pair.unmasked) = Len(spX)
                   /\ Len(pair.masked) = Len(spX)
                   /\ \A j \in 1..Len(spX) :
                          /\ pair.masked[j].shape = MaskShape(spX[j])
                          /\ pair.unmasked[j].shape = MaskShape(spX[j])
                          /\ DOMAIN pair.masked[j].data
                                 = DOMAIN pair.unmasked[j].data
                          /\ \A k \in DOMAIN pair.masked[j].data :
                                 pair.unmasked[j].data[k]
                                     = ~pair.masked[j].data[k]

\* A generator over two matrices has run to its end after two pairs, with a
\* test mask that holds both masked and unmasked entries.
C13_Witness ==
    \E g \in 1..Len(gens) :
        /\ gens[g].done
        /\ Len(gens[g].out) = 2
        /\ Len(spX) = 2
        /\ \E i \in 1..2, j \in 1..2 :
               LET d == gens[g].out[i].masked[j].data
               IN  (\E k \in DOMAIN d : d[k]) /\ (\E k \in DOMAIN d : ~d[k])

\* C14: any two generators obtained from the same splitter and matrices have
\* yielded the same pairs, as far as both have been consumed.
C14_SplitDeterministic ==
    \A g, h \in 1..Len(gens) :
        \A i \in 1..Len(gens[g].out) :
            i <= Len(gens[h].out) => gens[g].out[i] = gens[h].out[i]

\* Two generators are consumed in an interleaved way: the first has yielded
\* one pair and is not finished, the second has run to its end after two
\* pairs, and the two pairs differ.
C14_Witness ==
    /\ Len(gens) = 2
    /\ Len(gens[1].out) = 1
    /\ ~gens[1].done
    /\ gens[2].done
    /\ Len(gens[2].out) = 2
    /\ gens[2].out[1] # gens[2].out[2]

\* The flat indices of the positive entries of m, and of its zero entries.
Positive(m) == {k \in 1..Size(m) : m.data[k] > 0}

ZeroValued(m) == {k \in 1..Size(m) : m.data[k] = 0}

\* C26: in the signal-aware mode of the bin splitter every test mask has the
\* shape of its matrix; without balancing every masked entry is a positive
\* entry; with balancing the zero entries are masked at the rate at which
\* the positive entries were: all of them when every positive entry was
\* masked, none of them when no positive entry was.
C26_SignalAwareMask ==
    (splitter.type = "Mask" /\ splitter.mask_signal) =>
        \A g \in 1..Len(gens) :
            \A i \in 1..Len(gens[g].out) :
                \A j \in 1..Len(spX) :
                    LET m == spX[j]
                        mask == gens[g].out[i].masked[j]
                        masked == {k \in 1..Size(mask) : mask.data[k]}
                    IN  /\ mask.shape = m.shape
                        /\ Size(mask) = Size(m)
                        /\ ~splitter.balance_mask_signal
                               => masked \subseteq Positive(m)
                        /\ splitter.balance_mask_signal =>
                               /\ (Positive(m) # {}
                                   /\ Positive(m) \subseteq masked)
                                      => ZeroValued(m) \subseteq masked
                               /\ Positive(m) \cap masked = {}
                                      => ZeroValued(m) \cap masked = {}

\* ------------------------------------------------------------------------
\* MzBinMaskingSplitter.mask_train_matrix and reconstruction_error
\* ------------------------------------------------------------------------

\* 2 x 2 matrices with entries 0 or 1, and the boolean masks of that shape.
ErrorMatrices ==
    {[shape |-> <<2, 2>>, data |-> d] : d \in [1..4 -> {0, 1}]}

ErrorMasks ==
    {[shape |-> <<2, 2>>, data |-> d] : d \in [1..4 -> BOOLEAN]}

\* m[mask] = 0.0; return m
mask_train_matrix(m, mask) ==
    [m EXCEPT !.data = [k \in DOMAIN @ |-> IF mask.data[k] THEN 0 ELSE @[k]]]

\* Sum of (m[mask] - m_reconstructed[mask]) ** 2 over the flat indices from k.
RECURSIVE SumSquares(_, _, _, _)
SumSquares(m, m_reconstructed, mask, k) ==
    IF k > Size(m) THEN 0
    ELSE (IF mask.data[k]
          THEN (m.data[k] - m_reconstructed.data[k])
                   * (m.data[k] - m_reconstructed.data[k])
          ELSE 0) + SumSquares(m, m_reconstructed, mask, k + 1)

\* A float result: NaN, or a value in hundredths.
NaN == [nan |-> TRUE, value |-> 0]

Float(v) == [nan |-> FALSE, value |-> v]

\* np.nanmean((m[mask] - m_reconstructed[mask]) ** 2): the mean over the
\* selected entries, NaN (with a RuntimeWarning) when none is selected.
reconstruction_error(m, m_reconstructed, mask) ==
    IF CountTrue(mask.data) = 0 THEN NaN
    ELSE Float((100 * SumSquares(m, m_reconstructed, mask, 1))
                   \div CountTrue(mask.data))

InitError ==
    /\ IdleExcept("error")
    /\ eM \in ErrorMatrices
    /\ eRec \in ErrorMatrices
    /\ eMask \in ErrorMasks
    /\ eOut = [pc |-> "idle", train |-> NoArray, error |-> NoFloat]

\* m_train = m.copy(); m_train = splitter.mask_train_matrix(m_train, mask)
MaskTrain ==
    /\ eOut.pc = "idle"
    /\ eOut' = [eOut EXCEPT !.pc = "masked",
                            !.train = mask_train_matrix(eM, eMask)]
    /\ UNCHANGED <<eM, eRec, eMask, notError>>

\* splitter.reconstruction_error(m, m_reconstructed, mask, model)
ReconstructionError ==
    /\ eOut.pc = "masked"
    /\ eOut' = [eOut EXCEPT !.pc = "done",
                            !.error = reconstruction_error(eM, eRec, eMask)]
    /\ UNCHANGED <<eM, eRec, eMask, notError>>

NextError == MaskTrain \/ ReconstructionError

SpecError == InitError /\ [][NextError]_vars

\* C15: after mask_train_matrix and reconstruction_error with a mask that
\* selects nothing, the error of a reconstruction equal to the matrix is the
\* number 0.
C15_UnmaskedErrorIsZero ==
    (/\ eOut.pc = "done"
     /\ CountTrue(eMask.data) = 0
     /\ eRec = eM)
        => eOut.error = Float(0)

\* ------------------------------------------------------------------------
\* pick_parameters_harmonic_mean
\* ------------------------------------------------------------------------

\* The mean_test_<name> columns of the fitted search, one row per candidate.
TableNames == {"weight_orthogonality", "nonzero_component_fraction"}

\* Column values, in hundredths.
TableValues == {-100, -50, 0}

HarmonicTables ==
    {t \in SeqsUpTo([TableNames -> TableValues], MaxIter + 1) : Len(t) >= 1}

\* parameter_names: both columns, one of them, one of them twice, and a name
\* that is no column of the table.
ParameterNames ==
    {<<"weight_orthogonality", "nonzero_component_fraction">>,
     <<"weight_orthogonality">>,
     <<"nonzero_component_fraction", "nonzero_component_fraction">>,
     <<"weight_orthogonality", "unknown">>}

\* constant, in thousandths.
HarmonicConstant == 1

\* The keys of the dictionary built from parameter_names, in first-seen
\* order: a repeated name is one key.
RECURSIVE DictKeys(_, _)
DictKeys(names, seen) ==
    IF names = << >> THEN << >>
    ELSE IF Head(names) \in seen THEN DictKeys(Tail(names), seen)
    ELSE <<Head(names)>> \o DictKeys(Tail(names), seen \cup {Head(names)})

\* optimization_parameters.score(k, v) on a column.
ScoreColumn(error, table, p) ==
    [c \in 1..Len(table) |-> score(error, p, table[c][p])]

Min(col) == CHOOSE x \in {col[c] : c \in DOMAIN col} :
                \A c \in DOMAIN col : x <= col[c]

Max(col) == CHOOSE x \in {col[c] : c \in DOMAIN col} :
                \A c \in DOMAIN col : x >= col[c]

\* (v - v.min()) / (v - v.min()).max(), in thousandths: 0 / 0 is NaN for
\* every candidate of a constant column.
MinMaxScale(col) ==
    [c \in DOMAIN col |->
        IF Max(col) - Min(col) = 0 THEN NaN
        ELSE Float((1000 * (col[c] - Min(col))) \div (Max(col) - Min(col)))]

\* The term of one objective taken as the value itself.
NoReciprocal(x) == x

\* 1.0 / x for x in thousandths, in thousandths.
Reciprocal(x) == 1000000 \div x

\* Sum over the objectives of 1 / (normalized + constant) for candidate c.
RECURSIVE SumReciprocals(_, _, _)
SumReciprocals(normalized, keys, c) ==
    IF keys = << >> THEN 0
    ELSE Reciprocal(normalized[Head(keys)][c].value + HarmonicConstant)
             + SumReciprocals(normalized, Tail(keys), c)

\* pick_parameters_harmonic_mean(bcv, parameter_names, constant,
\* optimization_parameters): the harmonic scores are in units of 1e-5.
pick_parameters_harmonic_mean(table, parameter_names, error) ==
    IF \E i \in 1..Len(parameter_names) : parameter_names[i] \notin TableNames
    THEN [status |-> "raised", keys |-> << >>, normalized |-> << >>,
          scores |-> << >>]
    ELSE LET keys == DictKeys(parameter_names, {})
             parameters == [p \in {keys[i] : i \in 1..Len(keys)} |->
                               MinMaxScale(ScoreColumn(error, table, p))]
         IN  [status |-> "returned",
              keys |-> keys,
              normalized |-> parameters,
              scores |->
                  [c \in 1..Len(table) |->
                      IF \E p \in DOMAIN parameters : parameters[p][c].nan
                      THEN NaN
                      ELSE Float((Len(keys) * 100000000)
                                 \div SumReciprocals(parameters, keys, c))]]

InitHarmonic ==
    /\ IdleExcept("harmonic")
    /\ hTable \in HarmonicTables
    /\ hNames \in ParameterNames
    /\ hError \in {"l1", "l2"}
    /\ hOut = NoPick

\* One call of the selector on the fitted search.
Pick ==
    /\ hOut.status = "none"
    /\ hOut' = pick_parameters_harmonic_mean(hTable, hNames, hError)
    /\ UNCHANGED <<hTable, hNames, hError, notHarmonic>>

NextHarmonic == Pick

SpecHarmonic == InitHarmonic /\ [][NextHarmonic]_vars

\* Candidate c has the given normalized values (thousandths) on the two
\* objectives of the call.
NormalizedAt(c, x, y) ==
    /\ ~hOut.normalized[hOut.keys[1]][c].nan
    /\ ~hOut.normalized[hOut.keys[2]][c].nan
    /\ hOut.normalized[hOut.keys[1]][c].value = x
    /\ hOut.normalized[hOut.keys[2]][c].value = y

\* C16: the score of a candidate is n_objectives divided by the sum over the
\* objectives of 1 / (normalized value + constant); with two objectives, a
\* candidate normalized to 1.0 on both scores strictly higher than one
\* normalized to 1.0 on one and 0.0 on the other.
C16_HarmonicMean ==
    hOut.status = "returned" =>
        /\ \A c \in 1..Len(hOut.scores) :
               ~hOut.scores[c].nan =>
                   LET n == Len(hOut.keys)
                       term(i) ==
                           1000000
                               \div (hOut.normalized[hOut.keys[i]][c].value + 1)
                   IN  hOut.scores[c].value =
                           (n * 100000000)
                               \div (IF n = 1 THEN term(1)
                                     ELSE term(1) + term(2))
        /\ Len(hOut.keys) = 2 =>
               \A a, b \in 1..Len(hOut.scores) :
                   (/\ NormalizedAt(a, 1000, 1000)
                    /\ NormalizedAt(b, 1000, 0) \/ NormalizedAt(b, 0, 1000))
                       => /\ ~hOut.scores[a].nan
                          /\ ~hOut.scores[b].nan
                          /\ hOut.scores[a].value > hOut.scores[b].value

\* The selector has returned for a table that holds a candidate at 1.0 on
\* both objectives and a candidate at 1.0 on the first and 0.0 on the second.
C16_Witness ==
    /\ hOut.status = "returned"
    /\ Len(hOut.keys) = 2
    /\ \E a, b \in 1..Len(hOut.scores) :
           NormalizedAt(a, 1000, 1000) /\ NormalizedAt(b, 1000, 0)


\* C27: whenever the selector returns, every normalized value is a number
\* in [0, 1] and every harmonic score is a number in (0, 1 + constant],
\* also for a column on which all candidates agree and for a table with a
\* single candidate.
C27_ScoresDefined ==
    hOut.status = "returned" =>
        /\ \A i \in 1..Len(hOut.keys) :
               \A c \in 1..Len(hTable) :
                   LET x == hOut.normalized[hOut.keys[i]][c]
                   IN  ~x.nan /\ x.value >= 0 /\ x.value <= 1000
        /\ \A c \in 1..Len(hOut.scores) :
               /\ ~hOut.scores[c].nan
               /\ hOut.scores[c].value > 0
               /\ hOut.scores[c].value <= 100 * (1000 + HarmonicConstant)

\* ------------------------------------------------------------------------
\* NMFMaskWrapper.get_params, set_params and fit_model
\* ------------------------------------------------------------------------

\* Two of the wrapper's own constructor parameters, two of the keyword
\* arguments of NMF, and two distinct values a parameter can take.
FieldNames == {"n_splits", "mask_fraction"}

NMFKeywords == {"alpha_W", "l1_ratio"}

ParamValues == {1, 2}

\* Dictionaries are functions on their set of keys.
Dicts(keys, values) == UNION {[d -> values] : d \in SUBSET keys}

Put(d, k, v) == [x \in DOMAIN d \cup {k} |-> IF x = k THEN v ELSE d[x]]

\* __init__(..., **nmf_kwargs): the named parameters become attributes, the
\* remaining keywords are kept in _nmf_kwargs.  attrs holds the attributes
\* that setattr adds later.
WrapperWithKwargs(fields, nmf_kwargs) ==
    [fields |-> fields, nmf_kwargs |-> nmf_kwargs, attrs |-> << >>]

\* get_params: the constructor's named parameters read from the attributes,
\* overlaid with _nmf_kwargs.
get_params(w) ==
    [k \in FieldNames \cup DOMAIN w.nmf_kwargs |->
        IF k \in DOMAIN w.nmf_kwargs THEN w.nmf_kwargs[k] ELSE w.fields[k]]

\* One iteration of the loop of set_params: a key of _nmf_kwargs is updated
\* there, any other name is set as an attribute.
SetParam(w, param, value) ==
    IF param \in DOMAIN w.nmf_kwargs
    THEN [w EXCEPT !.nmf_kwargs = Put(@, param, value)]
    ELSE IF param \in FieldNames
    THEN [w EXCEPT !.fields = Put(@, param, value)]
    ELSE [w EXCEPT !.attrs = Put(@, param, value)]

\* set_params(**params)
RECURSIVE SetParams(_, _)
SetParams(w, params) ==
    IF DOMAIN params = {} THEN w
    ELSE LET k == CHOOSE x \in DOMAIN params : TRUE
         IN  SetParams(SetParam(w, k, params[k]),
                       [x \in DOMAIN params \ {k} |-> params[x]])

\* fit_model: the keyword arguments handed to fit_nmf_matrix_custom_init.
fit_model(w) == w.nmf_kwargs

InitParams ==
    /\ IdleExcept("params")
    /\ \E fields \in [FieldNames -> ParamValues],
          nmf_kwargs \in Dicts(NMFKeywords, ParamValues) :
           /\ pw = WrapperWithKwargs(fields, nmf_kwargs)
           /\ pLast = [NoParamsCall EXCEPT !.expected = nmf_kwargs]

\* set_params(param=value)
PSetParams ==
    \E param \in FieldNames \cup NMFKeywords, value \in ParamValues :
        /\ pw' = SetParam(pw, param, value)
        /\ pLast' = [op |-> "set_params", param |-> param, value |-> value,
                     before |-> get_params(pw), passed |-> << >>,
                     expected |-> IF param \in NMFKeywords
                                  THEN Put(pLast.expected, param, value)
                                  ELSE pLast.expected]
        /\ UNCHANGED notParams

\* set_params(**get_params())
PRoundTrip ==
    /\ pw' = SetParams(pw, get_params(pw))
    /\ pLast' = [op |-> "round_trip", param |-> "", value |-> 0,
                 before |-> get_params(pw), passed |-> << >>,
                 expected |-> pLast.expected]
    /\ UNCHANGED notParams

\* fit_model(m) during a fit
PFitModel ==
    /\ pLast' = [op |-> "fit_model", param |-> "", value |-> 0,
                 before |-> get_params(pw), passed |-> fit_model(pw),
                 expected |-> pLast.expected]
    /\ UNCHANGED <<pw, notParams>>

NextParams == PSetParams \/ PRoundTrip \/ PFitModel

SpecParams == InitParams /\ [][NextParams]_vars

\* C17: after set_params(p=v), for p a wrapper field or any NMF keyword,
\* get_params() maps p to v; a fit hands every NMF keyword to the
\* factorization with the value it was last given; and
\* set_params(**get_params()) leaves get_params() as it was.
C17_ParamsExposed ==
    /\ pLast.op = "set_params" =>
           /\ pLast.param \in DOMAIN get_params(pw)
           /\ get_params(pw)[pLast.param] = pLast.value
    /\ pLast.op = "fit_model" =>
           \A k \in DOMAIN pLast.expected :
               /\ k \in DOMAIN pLast.passed
               /\ pLast.passed[k] = pLast.expected[k]
    /\ pLast.op = "round_trip" => get_params(pw) = pLast.before

\* ------------------------------------------------------------------------
\* tune_hyperparameters_randomizedsearchcv and
\* tune_hyperparameters_optunasearchcv: the handling of the root logger
\* ------------------------------------------------------------------------

\* logging levels: INFO and WARNING.
Levels == {20, 30}

\* The handlers the root logger can hold before the call: up to two, each a
\* FileHandler or not; handler 3 is the one the call creates.
Handlers == [id : {1, 2}, file : BOOLEAN, open : {TRUE}]

HandlerLists ==
    {h \in SeqsUpTo(Handlers, 2) : \A i \in 1..Len(h) : h[i].id = i}

\* The position of the first FileHandler of a handler list, 0 if none.
FirstFile(handlers) ==
    IF \E i \in 1..Len(handlers) : handlers[i].file
    THEN CHOOSE i \in 1..Len(handlers) :
             handlers[i].file /\ \A j \in 1..(i - 1) : ~handlers[j].file
    ELSE 0

\* logger.removeHandler(h)
RECURSIVE removeHandler(_, _)
removeHandler(handlers, id) ==
    IF handlers = << >> THEN << >>
    ELSE IF Head(handlers).id = id THEN Tail(handlers)
    ELSE <<Head(handlers)>> \o removeHandler(Tail(handlers), id)

\* logger.addHandler(h)
addHandler(handlers, h) ==
    IF \E i \in 1..Len(handlers) : handlers[i].id = h.id THEN handlers
    ELSE Append(handlers, h)

new_handler == [id |-> 3, file |-> TRUE, open |-> TRUE]

\* The handler list after the two blocks that install the per-run
\* FileHandler: the first FileHandler, if any, is displaced by it.
InstallHandler(handlers) ==
    IF FirstFile(handlers) # 0
    THEN removeHandler(addHandler(handlers, new_handler),
                       handlers[FirstFile(handlers)].id)
    ELSE addHandler(handlers, new_handler)

\* The setup of an entry point up to format_logger(logger); format_logger is
\* not part of this file: it is taken to leave the handler list as it is and
\* to set any level.
TuneBegin ==
    /\ tRun.pc = "idle"
    /\ \E entry \in {"randomized", "optuna"}, level \in Levels :
           /\ tRun' = [pc |-> "configured", entry |-> entry,
                       original_logger_state |-> lg.disabled,
                       original_logger_level |-> lg.level,
                       old_handler |-> IF FirstFile(lg.handlers) # 0
                                       THEN lg.handlers[FirstFile(lg.handlers)].id
                                       ELSE 0,
                       new_open |-> TRUE,
                       before |-> lg]
           /\ lg' = [lg EXCEPT !.handlers = InstallHandler(@),
                               !.level = level]
    /\ UNCHANGED notTune

\* rcv.fit(...) or ocv.fit(...): the search returns, or raises an exception
\* that leaves the entry point.
TuneFit ==
    /\ tRun.pc = "configured"
    /\ \E outcome \in {"fitted", "raised"} :
           tRun' = [tRun EXCEPT !.pc = outcome]
    /\ UNCHANGED <<lg, notTune>>

\* The last lines of an entry point: the per-run handler is removed and
\* closed, the displaced handler is added back, and the disabled flag and the
\* level are set to the values saved at the start.
TuneRestore ==
    /\ tRun.pc = "fitted"
    /\ lg' = [handlers |->
                  IF tRun.old_handler # 0
                  THEN addHandler(removeHandler(lg.handlers, new_handler.id),
                                  [id |-> tRun.old_handler, file |-> TRUE,
                                   open |-> TRUE])
                  ELSE removeHandler(lg.handlers, new_handler.id),
              disabled |-> tRun.original_logger_state,
              level |-> tRun.original_logger_level]
    /\ tRun' = [tRun EXCEPT !.pc = "returned", !.new_open = FALSE]
    /\ UNCHANGED notTune

InitTune ==
    /\ IdleExcept("tune")
    /\ \E handlers \in HandlerLists, level \in Levels, disabled \in BOOLEAN :
           lg = [handlers |-> handlers, disabled |-> disabled, level |-> level]
    /\ tRun = NoTune

NextTune == TuneBegin \/ TuneFit \/ TuneRestore

SpecTune == InitTune /\ [][NextTune]_vars

\* The set of handlers attached to a logger.
Attached(l) == {l.handlers[i] : i \in 1..Len(l.handlers)}

\* C20: when a tuning call has ended, by returning or by an exception of the
\* search fit, the per-run handler is detached and closed, the handlers
\* attached before the call are attached again, and level and disabled flag
\* have their values of before the call.
C20_LoggerRestored ==
    tRun.pc \in {"returned", "raised"} =>
        /\ new_handler \notin Attached(lg)
        /\ ~tRun.new_open
        /\ Attached(lg) = Attached(tRun.before)
        /\ lg.level = tRun.before.level
        /\ lg.disabled = tRun.before.disabled

\* ------------------------------------------------------------------------
\* NMFMaskWrapper.fit and score on arrays: the caller's matrices are objects
\* in memory, X is a list of references to them.
\* ------------------------------------------------------------------------

DataListNames ==
    {"reconstruction_errors", "test_reconstruction_errors",
     "train_reconstruction_errors"}

\* test_masks is history kept for the properties: the test mask of every
\* iteration of the latest fit.
DataWrappers ==
    [splitter_type : {"Mask", "Sample"}, n_splits : 0..MaxSplits,
     mask_fraction : {50, 100}, random_state : RandomStates,
     mask_signal : BOOLEAN, balance_mask_signal : BOOLEAN,
     hasLists : {FALSE}, lists : {[l \in DataListNames |-> << >>]},
     test_masks : {<< >>}]

\* The splitter fit builds from the wrapper's parameters.
SplitterOf(w) ==
    [type |-> w.splitter_type, n_splits |-> w.n_splits,
     mask_fraction |-> w.mask_fraction, random_state |-> w.random_state,
     mask_signal |-> w.splitter_type = "Mask" /\ w.mask_signal,
     balance_mask_signal |-> w.splitter_type = "Mask" /\ w.balance_mask_signal]

\* The same object under another name: no copy is made.
Alias(heap, id) == [heap |-> heap, id |-> id]

\* m.copy(): a new object with the contents of object id.
copy(heap, id) == [heap |-> Append(heap, heap[id]), id |-> Len(heap) + 1]

\* Number of columns of a matrix.
Cols(m) == m.shape[2]

\* The flat indices of the rows a row mask selects, in order.
SelectedEntries(m, mask) ==
    SelectSeq([k \in 1..Size(m) |-> k],
              LAMBDA k : mask.data[((k - 1) \div Cols(m)) + 1])

\* m[mask] for a row mask: the selected rows.
SelectRows(m, mask) ==
    LET idx == SelectedEntries(m, mask)
    IN  [shape |-> <<CountTrue(mask.data), Cols(m)>>,
         data |-> [i \in 1..Len(idx) |-> m.data[idx[i]]]]

\* splitter.mask_train_matrix(m_train, test_mask) on object id: the bin
\* splitter zeroes the masked entries of the object itself, the sample
\* splitter returns the unmasked rows as a new object.
MaskTrainMatrix(type, heap, id, mask) ==
    IF type = "Mask"
    THEN [heap |-> [heap EXCEPT ![id] = mask_train_matrix(@, mask)], id |-> id]
    ELSE [heap |-> Append(heap, SelectRows(heap[id], Invert(mask))),
          id |-> Len(heap) + 1]

Zeros(m) == [m EXCEPT !.data = [k \in DOMAIN @ |-> 0]]

\* A row mask as a mask over the entries of m.
EntryMask(m, mask) ==
    [shape |-> m.shape,
     data |-> [k \in 1..Size(m) |-> mask.data[((k - 1) \div Cols(m)) + 1]]]

Sum(m) == SumSquares(m, Zeros(m), [m EXCEPT !.data = [k \in DOMAIN @ |-> TRUE]], 1)

\* np.zeros((rows, cols))
ZeroMatrix(rows, cols) ==
    [shape |-> <<rows, cols>>, data |-> [k \in 1..(rows * cols) |-> 0]]

\* W, H, model = self.fit_model(m_train): the all-zero fallback of
\* fit_nmf_matrix_custom_init when the training matrix has no row or no
\* column or when the fit raises on it (raises: the outcome of the numerical
\* library on this call); otherwise the factorization, taken to be exact
\* with W the identity and H the training matrix (a training matrix here has
\* no more rows than columns, so n_components is its number of rows).
NMFOf(m_train, raises) ==
    LET n == IF Min(m_train.shape) > 1 THEN Min(m_train.shape) ELSE 1
    IN  IF Min(m_train.shape) = 0 \/ raises
        THEN [fitted |-> FALSE, m_reconstructed |-> Zeros(m_train),
              components_ |-> ZeroMatrix(n, Cols(m_train))]
        ELSE [fitted |-> TRUE, m_reconstructed |-> m_train,
              components_ |-> m_train]

\* The inner product of a and b over the entries from k on.
RECURSIVE Dot(_, _, _)
Dot(a, b, k) ==
    IF k > Len(a) THEN 0 ELSE a[k] * b[k] + Dot(a, b, k + 1)

\* Row i of a matrix.
Row(m, i) == SubSeq(m.data, (i - 1) * Cols(m) + 1, i * Cols(m))

\* Sum over the rows r of rows from row i on of the squared entries of
\* (h.h) r - (r.h) h: the residual of r after model.transform weighs the one
\* component h by r.h / h.h (the non-negative least-squares weight, r and h
\* having no negative entry), times (h.h) ** 2.
RECURSIVE ScaledResidual(_, _, _)
ScaledResidual(rows, h, i) ==
    IF i > rows.shape[1] THEN 0
    ELSE LET r == Row(rows, i)
             d == [k \in 1..Len(r) |-> r[k] * Dot(h, h, 1) - Dot(r, h, 1) * h[k]]
         IN  Dot(d, d, 1) + ScaledResidual(rows, h, i + 1)

\* mt = model.transform(m[mask]); m_reconstructed = mt @ model.components_;
\* np.nanmean((m[mask] - m_reconstructed) ** 2).  The rows the model was
\* fitted on are reconstructed exactly (the train error); other rows are
\* held out of a matrix of two rows, which leaves a model of one component.
transform_error(rows, components_) ==
    CASE rows = components_ -> Float(0)
      [] rows # components_ /\ components_.shape[1] = 1 ->
        LET h == Row(components_, 1)
        IN  Float((100 * ScaledResidual(rows, h, 1))
                      \div (Dot(h, h, 1) * Dot(h, h, 1) * Size(rows)))

\* MzBinSampleSplitter.reconstruction_error: the error over the selected
\* rows of m of a reconstruction made by transforming those rows with the
\* model fitted on the other rows; against zeros when the components or the
\* selected rows sum to zero.
sample_reconstruction_error(m, mask, model) ==
    IF Sum(model.components_) = 0 \/ Sum(SelectRows(m, mask)) = 0
    THEN reconstruction_error(m, Zeros(m), EntryMask(m, mask))
    ELSE transform_error(SelectRows(m, mask), model.components_)

\* splitter.reconstruction_error(m, m_reconstructed, mask, model)
ReconstructionErrorOf(type, m, m_reconstructed, mask, model) ==
    IF type = "Mask"
    THEN reconstruction_error(m, m_reconstructed, mask)
    ELSE sample_reconstruction_error(m, mask, model)

\* The inner loop of fit from matrix j on, for one pair of mask lists: the
\* matrix is copied, the copy masked and fitted, and the two errors are
\* computed on m.  fails holds the iterations of the fit, counted from 1,
\* on which the NMF fit raises.
RECURSIVE FitMatrixLoop(_, _, _, _, _)
FitMatrixLoop(w, mem, pair, j, fails) ==
    IF j > Len(mem.X) THEN [w |-> w, mem |-> mem]
    ELSE LET c == copy(mem.heap, mem.X[j])
             t == MaskTrainMatrix(w.splitter_type, c.heap, c.id, pair.masked[j])
             m == t.heap[mem.X[j]]
             m_train == t.heap[t.id]
             model == NMFOf(m_train, (Len(w.test_masks) + 1) \in fails)
             mse == ReconstructionErrorOf(w.splitter_type, m,
                                          model.m_reconstructed,
                                          pair.masked[j], model)
             mse_train == ReconstructionErrorOf(w.splitter_type, m,
                                                model.m_reconstructed,
                                                pair.unmasked[j], model)
         IN  FitMatrixLoop(
                 [w EXCEPT !.lists.test_reconstruction_errors = Append(@, mse),
                           !.lists.train_reconstruction_errors =
                               Append(@, mse_train),
                           !.test_masks = Append(@, pair.masked[j])],
                 [mem EXCEPT !.heap = t.heap], pair, j + 1, fails)

\* The outer loop of fit from split s on: the masks of a split are drawn
\* from the matrices as they are when the split begins.
RECURSIVE FitSplitLoop(_, _, _, _, _)
FitSplitLoop(w, mem, s, rng, fails) ==
    IF s >= w.n_splits THEN [w |-> w, mem |-> mem]
    ELSE LET Xs == [j \in 1..Len(mem.X) |-> mem.heap[mem.X[j]]]
             pair == SplitMatrixLoop(SplitterOf(w), Xs, 1, rng, << >>, << >>)
             r == FitMatrixLoop(w, mem, pair, 1, fails)
         IN  FitSplitLoop(r.w, r.mem, s + 1, pair.rng, fails)

\* NMFMaskWrapper.fit(X) on arrays; the training matrices are local to the
\* call and are gone when it returns.
fit_arrays(w, mem, fails) ==
    LET w0 == [w EXCEPT !.hasLists = TRUE,
                        !.lists = [l \in DataListNames |-> << >>],
                        !.test_masks = << >>]
        r == FitSplitLoop(w0, mem, 0, default_rng(w.random_state), fails)
    IN  [w |-> r.w,
         mem |-> [r.mem EXCEPT !.heap = SubSeq(@, 1, Len(mem.heap))]]

\* The entries of a list of floats that are numbers.
Finite(errors) == SelectSeq(errors, LAMBDA e : ~e.nan)

RECURSIVE SumValues(_)
SumValues(errors) ==
    IF errors = << >> THEN 0 ELSE Head(errors).value + SumValues(Tail(errors))

\* np.nanmean of a list: NaN (with a RuntimeWarning) when no entry is a
\* number.
nanmean(errors) ==
    IF Finite(errors) = << >> THEN NaN
    ELSE Float(SumValues(Finite(errors)) \div Len(Finite(errors)))

\* -1 * x
Negated(x) == IF x.nan THEN NaN ELSE Float(-x.value)

\* NMFMaskWrapper.score
wrapper_score(w) == Negated(nanmean(w.lists.reconstruction_errors))

Contents(mem) == [j \in 1..Len(mem.X) |-> mem.heap[mem.X[j]]]

InitData ==
    /\ IdleExcept("data")
    /\ dw \in DataWrappers
    /\ \E X \in SplitInputs \ {<< >>} :
           dMem = [heap |-> X, X |-> [j \in 1..Len(X) |-> j]]
    /\ dOut = NoDataCall

\* Number of iterations of one fit on which the NMF fit raises.
MaxFails == 1

\* wrapper.fit(X): every iteration has its own NMF fit, which raises or
\* does not.
DFit ==
    \E fails \in {f \in SUBSET (1..(dw.n_splits * Len(dMem.X))) :
                      Cardinality(f) <= MaxFails} :
        \E r \in {fit_arrays(dw, dMem, fails)} :
            /\ dw' = r.w
            /\ dMem' = r.mem
            /\ dOut' = [op |-> "fit", raised |-> FALSE, value |-> NoFloat,
                        before |-> Contents(dMem), fails |-> fails]

\* wrapper.score(X): an AttributeError before the first fit.
DScore ==
    /\ dOut.op # "score"
    /\ dOut' = [dOut EXCEPT !.op = "score",
                            !.raised = ~dw.hasLists,
                            !.value = IF dw.hasLists THEN wrapper_score(dw)
                                      ELSE NoFloat]
    /\ UNCHANGED <<dw, dMem>>

NextData ==
    \/ DFit /\ UNCHANGED notData
    \/ DScore /\ UNCHANGED notData

SpecData == InitData /\ [][NextData]_vars

\* ------------------------------------------------------------------------
\* Properties of fit and score on arrays
\* ------------------------------------------------------------------------

\* The latest fit computed at least one test error and all of them are
\* numbers.
FiniteErrors ==
    /\ dw.hasLists
    /\ dw.lists.test_reconstruction_errors # << >>
    /\ Finite(dw.lists.test_reconstruction_errors)
           = dw.lists.test_reconstruction_errors

\* C21: score() called after a fit that computed finite test reconstruction
\* errors returns minus their mean, a number.
C21_ScoreIsMinusMeanError ==
    (dOut.op = "score" /\ FiniteErrors) =>
        /\ ~dOut.raised
        /\ dOut.value = Negated(nanmean(dw.lists.test_reconstruction_errors))

\* C25: a fit leaves the contents of every matrix of X as they were before
\* the call, for both splitter types, and the test error and the train
\* error of every iteration are the errors, over its test mask and over its
\* train mask, of that iteration's model against the matrix as it was before
\* the call, the model being fitted on a masked copy of that matrix.
C25_FitLeavesInputUnchanged ==
    dOut.op = "fit" =>
        /\ Contents(dMem) = dOut.before
        /\ Len(dw.test_masks) = dw.n_splits * Len(dMem.X)
        /\ Len(dw.lists.test_reconstruction_errors) = Len(dw.test_masks)
        /\ Len(dw.lists.train_reconstruction_errors) = Len(dw.test_masks)
        /\ \A k \in 1..Len(dw.test_masks) :
               LET m == dOut.before[((k - 1) % Len(dMem.X)) + 1]
                   mask == dw.test_masks[k]
                   m_train == IF dw.splitter_type = "Mask"
                              THEN mask_train_matrix(m, mask)
                              ELSE SelectRows(m, Invert(mask))
                   model == NMFOf(m_train, k \in dOut.fails)
               IN  /\ dw.lists.test_reconstruction_errors[k]
                          = ReconstructionErrorOf(dw.splitter_type, m,
                                                  model.m_reconstructed,
                                                  mask, model)
                   /\ dw.lists.train_reconstruction_errors[k]
                          = ReconstructionErrorOf(dw.splitter_type, m,
                                                  model.m_reconstructed,
                                                  Invert(mask), model)

\* A fit with the bin splitter over two matrices, the NMF fit raising on
\* some iterations and not on others, has masked at least one entry that is
\* not zero: a test error is positive.
C25_Witness ==
    /\ dOut.op = "fit"
    /\ dw.splitter_type = "Mask"
    /\ Len(dMem.X) = 2
    /\ dOut.fails # {}
    /\ \E k \in 1..Len(dw.test_masks) : k \notin dOut.fails
    /\ \E i \in 1..Len(dw.lists.test_reconstruction_errors) :
           /\ ~dw.lists.test_reconstruction_errors[i].nan
           /\ dw.lists.test_reconstruction_errors[i].value > 0

\* A fit with the sample splitter held a row out of a matrix and kept the
\* other for training: the error of the transformed row is positive.
SampleErrorComputed ==
    /\ dOut.op = "fit"
    /\ dw.splitter_type = "Sample"
    /\ \E k \in 1..Len(dw.test_masks) :
           /\ k \notin dOut.fails
           /\ CountTrue(dw.test_masks[k].data) = 1
           /\ Len(dw.test_masks[k].data) = 2
           /\ dw.lists.test_reconstruction_errors[k] = Float(50)

\* ------------------------------------------------------------------------
\* fit_nmf_matrix_custom_init
\* ------------------------------------------------------------------------

\* The arrays handed in: their shape (two dimensions of 0 to 2, or one
\* dimension) and whether every entry is a finite number.
NMFShapes ==
    {<<r, c>> : r \in 0..2, c \in 0..2} \cup {<<0>>, <<2>>}

NMFInputs ==
    {m \in [shape : NMFShapes, kind : {"finite", "nonfinite"}] :
        m.kind = "nonfinite" => \A d \in 1..Len(m.shape) : m.shape[d] > 0}

ComponentCounts == 1..3

\* W_init and H_init: not given, arrays of the right shapes, or arrays of
\* shapes that do not fit.
CustomInits == {"none", "ok", "badshape"}

\* The init passed to NMF.
InitOf(solver, init, custom) ==
    IF custom # "none" THEN "custom"
    ELSE IF init # "None" THEN init
    ELSE IF solver = "cd" THEN "nndsvd" ELSE "nndsvda"

\* The requested number of components, taken as it is.
Unclamped(n_components, shape) == n_components

\* min(n_components, max(min(m.shape), 1))
Clamped(n_components, shape) ==
    LET floor == IF Min(shape) > 1 THEN Min(shape) ELSE 1
    IN  IF n_components < floor THEN n_components ELSE floor

\* model.fit_transform raises: entries that are not finite, an array that is
\* not two-dimensional, initial matrices of the wrong shape, or a failure
\* inside the linear algebra of the initialization.
FitTransformRaises(a) ==
    \/ a.m.kind = "nonfinite"
    \/ Len(a.m.shape) # 2
    \/ a.custom = "badshape"
    \/ a.numerical

ZerosOfShape(shape) == [shape |-> shape, data |-> "zeros"]

\* What the function returns on its fallback path.
Fallback(a, n, logged) ==
    [status |-> "returned", error |-> NoError,
     W |-> ZerosOfShape(<<a.m.shape[1], n>>),
     H |-> ZerosOfShape(<<n, a.m.shape[2]>>),
     reconstruction_err |-> "1e6",
     init |-> InitOf(a.solver, a.init, a.custom), logged |-> logged]

\* m.shape[1] on an array of one dimension, in the try block and again in
\* the except block: the IndexError leaves the function.
IndexErrorRaised(a) ==
    [NoNMFCall EXCEPT !.status = "raised",
                      !.error = "tuple index out of range",
                      !.init = InitOf(a.solver, a.init, a.custom),
                      !.logged = FALSE]

fit_nmf_matrix_custom_init(a) ==
    LET n == Clamped(a.n_components, a.m.shape)
    IN  IF Min(a.m.shape) = 0
        THEN IF Len(a.m.shape) < 2 THEN IndexErrorRaised(a)
             ELSE Fallback(a, n, FALSE)
        ELSE IF FitTransformRaises(a)
        THEN IF Len(a.m.shape) < 2 THEN IndexErrorRaised(a)
             ELSE Fallback(a, n, TRUE)
        ELSE [status |-> "returned", error |-> NoError,
              W |-> [shape |-> <<a.m.shape[1], n>>, data |-> "fitted"],
              H |-> [shape |-> <<n, a.m.shape[2]>>, data |-> "fitted"],
              reconstruction_err |-> "fitted",
              init |-> InitOf(a.solver, a.init, a.custom), logged |-> FALSE]

InitNMF ==
    /\ IdleExcept("nmf")
    /\ nIn = [m |-> [shape |-> << >>, kind |-> "none"], n_components |-> 0,
              solver |-> "none", init |-> "none", custom |-> "none",
              numerical |-> FALSE]
    /\ nOut = NoNMFCall

NMFCall ==
    \E a \in [m : NMFInputs, n_components : ComponentCounts,
              solver : {"cd", "mu"}, init : {"None", "random"},
              custom : CustomInits, numerical : BOOLEAN] :
        /\ nIn' = a
        /\ nOut' = fit_nmf_matrix_custom_init(a)
        /\ UNCHANGED notNmf

NextNMF == NMFCall

SpecNMF == InitNMF /\ [][NextNMF]_vars

\* C22: on a matrix with a zero dimension, or one on which the NMF fit
\* raises, the function returns an all-zero W of shape (rows, n) and an
\* all-zero H of shape (n, columns) with reconstruction error 1e6, n being
\* the requested number of components clamped to max(min(shape), 1).
C22_FallbackOnFailure ==
    (/\ nOut.status # "none"
     /\ Len(nIn.m.shape) = 2
     /\ (nIn.m.shape[1] = 0 \/ nIn.m.shape[2] = 0 \/ FitTransformRaises(nIn)))
        => LET rows == nIn.m.shape[1]
               cols == nIn.m.shape[2]
               lo == IF rows < cols THEN rows ELSE cols
               floor == IF lo < 1 THEN 1 ELSE lo
               n == IF nIn.n_components < floor THEN nIn.n_components
                    ELSE floor
           IN  /\ nOut.status = "returned"
               /\ nOut.W = ZerosOfShape(<<rows, n>>)
               /\ nOut.H = ZerosOfShape(<<n, cols>>)
               /\ nOut.reconstruction_err = "1e6"

\* The NMF fit has raised on a 2 x 2 matrix with entries that are not
\* finite, three components having been requested: the exception was logged
\* and two components of zeros came back.
C22_Witness ==
    /\ nOut.status = "returned"
    /\ nOut.logged
    /\ nIn.m = [shape |-> <<2, 2>>, kind |-> "nonfinite"]
    /\ nIn.n_components = 3
    /\ nOut.W.shape = <<2, 2>>

\* ------------------------------------------------------------------------
\* The scalars of the Optuna objective, computed from the fold records that
\* _fit_and_score returned for a trial.
\* ------------------------------------------------------------------------

\* _prune_at_zero, with the leading underscore the objective adds stripped.
PruneAtZero ==
    {"weight_orthogonality", "sample_orthogonality",
     "nonzero_component_fraction", "mean_weight_sparsity",
     "mean_sample_sparsity", "fraction_window_component"}

\* The keys of the test_scores dictionaries carried here: one metric of the
\* prune-at-zero list that has a target, and one that is in neither.
ObjectiveNames == {"nonzero_component_fraction", "test_reconstruction_errors"}

\* Test scores, in hundredths: minus the target of the first metric, and 0.
ObjectiveScores == {-40, 0}

\* A fold record: its fit error and its test scores.
FoldRecords ==
    {r \in [fit_error : {NoError, "failed"},
            test_scores : [ObjectiveNames -> ObjectiveScores]] :
        r.fit_error # NoError =>
            \A k \in ObjectiveNames : r.test_scores[k] = 0}

\* objective_params: one or two names in either order, or a name that is
\* no key of the test scores.
DeclaredObjectives ==
    {<<"nonzero_component_fraction", "test_reconstruction_errors">>,
     <<"test_reconstruction_errors", "nonzero_component_fraction">>,
     <<"nonzero_component_fraction">>, <<"_nonzero_component_fraction">>}

\* -10.0, in hundredths.
PrunePenalty == -1000

\* [r["test_scores"][k] for r in results]
TestScores(results, k) ==
    [i \in 1..Len(results) |-> Float(results[i].test_scores[k])]

\* parameter_value = -10.0 when pruning is enabled, the objective is in the
\* prune-at-zero list and the mean is exactly zero.
Penalized(mean, k, prune) ==
    IF prune /\ k \in PruneAtZero /\ ~mean.nan /\ mean.value = 0
    THEN Float(PrunePenalty)
    ELSE mean

\* self.optimization_parameters.score(k, parameter_value)
ScoreOf(error, k, x) ==
    IF x.nan THEN NaN ELSE Float(score(error, k, x.value))

\* One entry of output_parameters.
ObjectiveValue(results, k, prune, error) ==
    ScoreOf(error, k, Penalized(nanmean(TestScores(results, k)), k, prune))

\* The except branch of objective: the error attribute is set, "out" becomes
\* [None] * n_splits and TrialPruned is raised.
PrunedOutcome(results, msg) ==
    [state |-> "PRUNED", error |-> msg,
     out |-> [i \in 1..Len(results) |-> "None"], values |-> << >>]

\* objective(trial) from the return of _fit_and_score on.  A name that is
\* no key of the test scores raises KeyError in the loop; the fallback
\* after it takes the mean of the test_scores dictionaries, which raises
\* TypeError into the outer except branch.  Values that are NaN make the
\* study record the trial as failed.
objective_scalars(results, objective_params, prune, error) ==
    IF \E i \in 1..Len(results) : results[i].fit_error # NoError
    THEN PrunedOutcome(results, "One or more fits failed in cv.")
    ELSE IF /\ results # << >>
            /\ \E i \in 1..Len(objective_params) :
                   objective_params[i] \notin ObjectiveNames
    THEN PrunedOutcome(results, "unsupported operand type(s)")
    ELSE LET values == [i \in 1..Len(objective_params) |->
                           IF results = << >> THEN NaN
                           ELSE ObjectiveValue(results, objective_params[i],
                                               prune, error)]
         IN  [state |-> IF \E i \in 1..Len(values) : values[i].nan
                        THEN "FAIL" ELSE "COMPLETE",
              error |-> NoError, out |-> results, values |-> values]

InitObjective ==
    /\ IdleExcept("objective")
    /\ jIn \in [results : SeqsUpTo(FoldRecords, MaxSplits),
                objective_params : DeclaredObjectives,
                prune_bad_parameter_spaces : BOOLEAN,
                error : {"l1", "l2"}]
    /\ jOut = NoObjectiveCall

ObjectiveCall ==
    /\ jOut.state = "none"
    /\ jOut' = objective_scalars(jIn.results, jIn.objective_params,
                                 jIn.prune_bad_parameter_spaces, jIn.error)
    /\ UNCHANGED <<jIn, notObjective>>

NextObjective == ObjectiveCall

SpecObjective == InitObjective /\ [][NextObjective]_vars

\* C24: the objective of a trial whose records carry no fit error does not
\* prune the trial and leaves the records serialized on it; when it
\* succeeds it returns one scalar per declared objective, in declaration
\* order: the score of the mean test score over the records, with -10.0 in
\* place of a mean of exactly zero when pruning of bad parameter spaces is
\* enabled and the objective is in the prune-at-zero list.
C24_ObjectiveScalars ==
    (/\ jOut.state # "none"
     /\ \A i \in 1..Len(jIn.results) : jIn.results[i].fit_error = NoError)
        => /\ jOut.state # "PRUNED"
           /\ jOut.out = jIn.results
           /\ jOut.state = "COMPLETE" =>
                  /\ Len(jOut.values) = Len(jIn.objective_params)
                  /\ \A i \in 1..Len(jOut.values) :
                         LET k == jIn.objective_params[i]
                             mean == nanmean(TestScores(jIn.results, k))
                             zero == /\ jIn.prune_bad_parameter_spaces
                                     /\ k \in PruneAtZero
                                     /\ mean = Float(0)
                         IN  jOut.values[i] =
                                 Float(score(jIn.error, k,
                                             IF zero THEN PrunePenalty
                                             ELSE mean.value))

====
